---- MODULE Spec2Model ----
(***************************************************************************)
(* get-gpu control plane: request handlers (Netlify functions) and the     *)
(* scheduled cleanup function (the Reconciler) over a key-value blob store *)
(* and the upstream GPU cloud API.                                         *)
(*                                                                         *)
(* Every handler is an async function; every store operation and every     *)
(* upstream call is an await, so other handlers may run between them.      *)
(* A handler is therefore modelled as a process in a handler slot whose    *)
(* steps are cut between its reads (guards) and its writes; the values it  *)
(* read stay in the slot as its local copies.                              *)
(*                                                                         *)
(* Time is counted in units of 60/UnitsPerMinute seconds; timestamps       *)
(* (ISO strings of millisecond resolution, parsed back with new Date())    *)
(* are the integer clock values they denote.  Money is integer cents.      *)
(* Math.ceil(m * (p / 60)) is modelled as the exact ceiling of m*p/60; the *)
(* prices of PriceOf are ones for which the double-precision product has   *)
(* the same ceiling for every m up to 2000.                                *)
(***************************************************************************)
EXTENDS Integers, Sequences, FiniteSets, TLC

\* ------------------------------------------------------------------ bounds

\* Clock units per minute (a unit is 30 s).
UnitsPerMinute == 2
\* The unit clock steps stop at MaxTime.
MaxTime == 1
\* Upstream instance ids are 1..MaxVMs.
MaxVMs == 2
\* Launch request ids are 1..MaxReqs.
MaxReqs == 2
\* Concurrent request handlers.
NumHandlers == 2
\* Reconciler ticks started in one behaviour.
MaxTicks == 1
\* Requests received in one behaviour.
MaxCalls == 3
\* Reconciler invocations that may overlap.
NumTicks == 1
\* Reconciler invocations started, and overlapping, where two invocations race.
MaxOverlap == 2

\* ------------------------------------------------------- program constants

\* A null timestamp, instance id or reason (null / undefined in the records).
NULL == -1
\* claimSeedingLock's staleMinutes and the 60 * 60 * 1000 ms of cleanup Section 3.
StaleMinutes == 60
\* schedule: "* * * * *": the Reconciler runs every minute.
TickPeriodMinutes == 1

\* ------------------------------------------------------------- the domains

Emails == {"a", "b", "root"}
InstanceIds == 1..MaxVMs
RequestIds == 1..MaxReqs
Handlers == 1..NumHandlers
Ticks == 1..NumTicks
Types == {"t1", "t2"}
Regions == {"r1", "r2"}

\* Upstream price_cents_per_hour of each instance type.
PriceOf == [t1 |-> 100, t2 |-> 90]

StaleUnits == StaleMinutes * UnitsPerMinute

\* ---------------------------------------------------------------- helpers

\* Math.ceil(a / b) for b > 0.
Ceil(a, b) == -((-a) \div b)

\* s.setJSON(key, value) on one store.
Put(store, k, v) == [x \in (DOMAIN store) \cup {k} |-> IF x = k THEN v ELSE store[x]]

RECURSIVE SumOver(_, _)
SumOver(f, S) ==
  IF S = {} THEN 0
  ELSE LET x == CHOOSE y \in S : TRUE IN f[x] + SumOver(f, S \ {x})

\* Math.ceil((end - start) / (1000 * 60))
MinutesElapsed(start, end) == Ceil(end - start, UnitsPerMinute)

\* Math.ceil(minutesElapsed * (priceCentsPerHour / 60))
AccruedCents(start, end, price) == Ceil(MinutesElapsed(start, end) * price, 60)

\* blobs.listVMsByEmail, as the set of instance ids
VMsByEmail(vs, email) == {i \in DOMAIN vs : vs[i].candidateEmail = email}

\* candidateVMs.find((vm) => !vm.terminatedAt) / .filter / .some
ActiveVMs(vs, email) == {i \in VMsByEmail(vs, email) : vs[i].terminatedAt = NULL}

\* A total that ignores resetAfter.
ComputeSpentCentsAll(vs, t, email, resetAfter) ==
  LET counted == VMsByEmail(vs, email)
      cost == [i \in counted |->
                 AccruedCents(vs[i].launchedAt,
                              IF vs[i].terminatedAt # NULL THEN vs[i].terminatedAt ELSE t,
                              vs[i].priceCentsPerHour)]
  IN SumOver(cost, counted)

\* blobs.computeSpentCents(email, resetAfter) over the vms store vs at time t
ComputeSpentCents(vs, t, email, resetAfter) ==
  LET cutoff == IF resetAfter # NULL THEN resetAfter ELSE 0
      counted == {i \in VMsByEmail(vs, email) : ~(vs[i].launchedAt < cutoff)}
      cost == [i \in counted |->
                 AccruedCents(vs[i].launchedAt,
                              IF vs[i].terminatedAt # NULL THEN vs[i].terminatedAt ELSE t,
                              vs[i].priceCentsPerHour)]
  IN SumOver(cost, counted)

\* The characters of each candidate's email address.
Address ==
  [a |-> <<"a", "@", "x", ".", "i", "o">>,
   b |-> <<"b", "2", "@", "x", ".", "i", "o">>,
   root |-> <<"r", "@", "x", ".", "i", "o">>]

\* The characters /[a-z0-9]/i matches.
Alnum ==
  {"a", "b", "c", "d", "e", "f", "g", "h", "i", "j", "k", "l", "m", "n", "o", "p", "q",
   "r", "s", "t", "u", "v", "w", "x", "y", "z", "A", "B", "C", "D", "E", "F", "G", "H",
   "I", "J", "K", "L", "M", "N", "O", "P", "Q", "R", "S", "T", "U", "V", "W", "X", "Y",
   "Z", "0", "1", "2", "3", "4", "5", "6", "7", "8", "9"}

\* The key name with the address left as it is.
SanitizeNothing(chars) == chars

\* email.replace(/[^a-z0-9]/gi, "-")
Sanitize(chars) == [i \in DOMAIN chars |-> IF chars[i] \in Alnum THEN chars[i] ELSE "-"]

\* `web-${email.replace(/[^a-z0-9]/gi, "-")}`, as its characters
KeyName(email) == <<"w", "e", "b", "-">> \o Sanitize(Address[email])

\* ------------------------------------------------------------------ state

VARIABLES
  now,         \* Date.now()
  candidates,  \* store "candidates": email -> CandidateRecord
  vms,         \* store "vms": instanceId -> VMRecord
  lrs,         \* store "launch-requests": id -> LaunchRequest
  seeds,       \* store "seed-status": <<filesystemName, region>> -> FilesystemSeedStatus
  sshKeys,     \* store "ssh-keys": the emails with a key record
  inst,        \* upstream instances: id -> "absent" | "active" | "terminated"
  upKeys,      \* upstream SSH keys, by name
  upFs,        \* upstream filesystems: <<name, region>>
  capacity,    \* upstream regions_with_capacity_available: <<type, region>>
  emitted,     \* loader VM specs resolveFilesystems has returned, per <<name, region>>
  hs,          \* the request handlers in flight: slot -> local state
  tk,          \* the Reconciler invocation in flight
  ticksRun,    \* Reconciler invocations started so far
  calls,       \* requests received so far (auth-me, which writes nothing, not counted)
  last         \* the response the last step sent: [op, code], NoResponse if none

vars == <<now, candidates, vms, lrs, seeds, sshKeys, inst, upKeys, upFs, capacity,
          emitted, hs, tk, ticksRun, calls, last>>

Idle == [pc |-> "idle"]

\* A candidate as admin-candidates POST writes it.
NewCandidate(role, quota, t) ==
  [role |-> role, quotaDollars |-> quota, spentCents |-> 0,
   spentResetAt |-> t, deactivatedAt |-> NULL]

\* A VM record as vm-launch, launch-requests POST and cleanup Section 2 write it.
NewVM(email, type, region, price, t) ==
  [candidateEmail |-> email, instanceType |-> type, region |-> region,
   priceCentsPerHour |-> price, launchedAt |-> t, status |-> "launching",
   sshKeyName |-> KeyName(email), terminatedAt |-> NULL,
   terminationReason |-> "none", accruedCents |-> 0]

\* An authenticate that only looks for the Candidate record.
AuthOnAllowList(cs, email) == email \in DOMAIN cs

\* lib/auth authenticate: the email has a Candidate record that is not deactivated.
AuthOK(cs, email) == email \in DOMAIN cs /\ cs[email].deactivatedAt = NULL

\* A pending-request guard that looks at queued requests only.
PendingQueuedOnly(ls, email) ==
  {i \in DOMAIN ls : ls[i].candidateEmail = email /\ ls[i].status = "queued"}

\* existingRequests.find((lr) => lr.status === "queued" || lr.status === "provisioning")
PendingRequests(ls, email) ==
  {i \in DOMAIN ls : ls[i].candidateEmail = email
                     /\ ls[i].status \in {"queued", "provisioning"}}

\* Handlers without their quota checks.
QuotaNeverShort(cs, vs, t, email, price) == FALSE

\* quotaCents - realTimeSpent < price
QuotaShort(cs, vs, t, email, price) ==
  cs[email].quotaDollars * 100
    - ComputeSpentCents(vs, t, email, cs[email].spentResetAt) < price

\* launchInstance's result.instance_ids[0]: the next unused upstream id.
NextInstanceId == 1 + Cardinality({i \in InstanceIds : inst[i] # "absent"})

\* crypto.randomUUID(): an id no stored request has.
FreeRequestIds == RequestIds \ DOMAIN lrs

Respond(op, code) == last' = [op |-> op, code |-> code]

\* A step that sends no response.
NoResponse == [op |-> "none", code |-> 0]
Quiet == last' = NoResponse

Finish(h) == hs' = [hs EXCEPT ![h] = Idle]

\* A request arrives at a free handler slot.
Receive(h) == hs[h].pc = "idle" /\ calls < MaxCalls /\ calls' = calls + 1

\* The upstream launch call can succeed: the region has capacity for the type
\* and the model has an instance id left.
CanLaunch(type, region) == <<type, region>> \in capacity /\ NextInstanceId \in InstanceIds

\* --------------------------------------------------- POST /api/vms/launch

\* vm-launch: authentication, validation and the candidate guards (the reads).
LaunchGuards(h, e, type, region) ==
  /\ Receive(h)
  /\ UNCHANGED <<now, candidates, vms, lrs, seeds, sshKeys, inst, upKeys, upFs,
                 capacity, emitted, tk, ticksRun>>
  /\ IF ~AuthOK(candidates, e)
       THEN Respond("launch", 401) /\ UNCHANGED hs
     ELSE IF candidates[e].role = "candidate" /\ ActiveVMs(vms, e) # {}
       THEN Respond("launch", 400) /\ UNCHANGED hs
     ELSE IF candidates[e].role = "candidate" /\ PendingRequests(lrs, e) # {}
       THEN Respond("launch", 400) /\ UNCHANGED hs
     ELSE IF candidates[e].role = "candidate"
             /\ QuotaShort(candidates, vms, now, e, PriceOf[type])
       THEN Respond("launch", 403) /\ UNCHANGED hs
     ELSE /\ hs' = [hs EXCEPT ![h] = [pc |-> "launch", email |-> e, type |-> type,
                                      region |-> region, price |-> PriceOf[type]]]
          /\ Quiet

\* vm-launch: SSH key registration, the upstream launch and the VM record.
\* keyfail: listSshKeys/addSshKey threw; fail: launchInstance threw.
LaunchDo(h) ==
  /\ hs[h].pc = "launch"
  /\ Finish(h)
  /\ UNCHANGED <<now, candidates, lrs, seeds, upFs, capacity, emitted, tk, ticksRun, calls>>
  /\ \E outcome \in {"ok", "keyfail", "fail"} :
       CASE outcome = "keyfail" ->
              /\ Respond("launch", 500)
              /\ UNCHANGED <<vms, sshKeys, inst, upKeys>>
         [] outcome = "fail" ->
              /\ Respond("launch", 500)
              /\ upKeys' = upKeys \cup {KeyName(hs[h].email)}
              /\ sshKeys' = sshKeys \cup {hs[h].email}
              /\ UNCHANGED <<vms, inst>>
         [] outcome = "ok" ->
              /\ CanLaunch(hs[h].type, hs[h].region)
              /\ Respond("launch", 201)
              /\ upKeys' = upKeys \cup {KeyName(hs[h].email)}
              /\ sshKeys' = sshKeys \cup {hs[h].email}
              /\ inst' = [inst EXCEPT ![NextInstanceId] = "active"]
              /\ vms' = Put(vms, NextInstanceId,
                            NewVM(hs[h].email, hs[h].type, hs[h].region, hs[h].price, now))

\* ------------------------------------------------ POST /api/vms/terminate

\* The record vm-terminate writes: status, terminatedAt, reason and the final cost.
TerminatedVM(vm, role, t) ==
  [vm EXCEPT !.status = "terminated", !.terminatedAt = t,
             !.terminationReason =
                 IF role = "admin" THEN "admin_terminated" ELSE "user_terminated",
             !.accruedCents = AccruedCents(vm.launchedAt, t, vm.priceCentsPerHour)]

\* vm-terminate without its terminatedAt guard.
AlreadyTerminatedNever(vm) == FALSE

\* if (vm.terminatedAt) return 400
AlreadyTerminated(vm) == vm.terminatedAt # NULL

\* vm-terminate: authenticate(request) and the request body.
TerminateStart(h, e, id) ==
  /\ Receive(h)
  /\ UNCHANGED <<now, candidates, vms, lrs, seeds, sshKeys, inst, upKeys, upFs,
                 capacity, emitted, tk, ticksRun>>
  /\ IF ~AuthOK(candidates, e)
       THEN Respond("terminate", 401) /\ UNCHANGED hs
       ELSE /\ hs' = [hs EXCEPT ![h] = [pc |-> "termget", email |-> e, id |-> id,
                                        role |-> candidates[e].role]]
            /\ Quiet

\* vm-terminate: getVM and the 404 / 403 / 400 guards.
TerminateGet(h) ==
  LET e == hs[h].email
      id == hs[h].id
  IN
  /\ hs[h].pc = "termget"
  /\ UNCHANGED <<now, candidates, vms, lrs, seeds, sshKeys, inst, upKeys, upFs,
                 capacity, emitted, tk, ticksRun, calls>>
  /\ IF id \notin DOMAIN vms
       THEN Respond("terminate", 404) /\ Finish(h)
     ELSE IF hs[h].role # "admin" /\ vms[id].candidateEmail # e
       THEN Respond("terminate", 403) /\ Finish(h)
     ELSE IF AlreadyTerminated(vms[id])
       THEN Respond("terminate", 400) /\ Finish(h)
     ELSE /\ hs' = [hs EXCEPT ![h] = [pc |-> "terminate", email |-> e, id |-> id,
                                      role |-> hs[h].role, vm |-> vms[id]]]
          /\ Quiet

\* vm-terminate: the upstream terminate, the VM record, the candidate's
\* spentCents and the SSH key.  fail: terminateInstances threw (500).
TerminateDo(h) ==
  /\ hs[h].pc = "terminate"
  /\ Finish(h)
  /\ UNCHANGED <<now, lrs, seeds, upFs, capacity, emitted, tk, ticksRun, calls>>
  /\ \E outcome \in {"ok", "fail"} :
       CASE outcome = "fail" ->
              /\ Respond("terminate", 500)
              /\ UNCHANGED <<candidates, vms, sshKeys, inst, upKeys>>
         [] outcome = "ok" ->
              LET id == hs[h].id
                  vm == TerminatedVM(hs[h].vm, hs[h].role, now)
                  owner == vm.candidateEmail
                  vms2 == Put(vms, id, vm)
              IN /\ Respond("terminate", 200)
                 /\ inst' = [inst EXCEPT ![id] = "terminated"]
                 /\ vms' = vms2
                 /\ candidates' =
                      IF owner \in DOMAIN candidates
                        THEN [candidates EXCEPT ![owner].spentCents =
                                ComputeSpentCents(vms2, now, owner,
                                                  candidates[owner].spentResetAt)]
                        ELSE candidates
                 /\ IF ActiveVMs(vms2, owner) \ {id} = {}
                      THEN /\ upKeys' = upKeys \ {vm.sshKeyName}
                           /\ sshKeys' = sshKeys \ {owner}
                      ELSE UNCHANGED <<upKeys, sshKeys>>

\* ------------------------------------------------- POST /api/launch-requests

RECURSIVE FirstRegion(_, _, _)
\* for (const regionName of regions) if (availableRegions.includes(regionName)) ...
FirstRegion(type, regions, cap) ==
  IF regions = <<>> THEN "none"
  ELSE IF <<type, Head(regions)>> \in cap THEN Head(regions)
  ELSE FirstRegion(type, Tail(regions), cap)

RECURSIVE RegionMajorMatch(_, _, _)
\* A match loop with the regions outside and the types inside.
RegionMajorMatch(types, regions, cap) ==
  IF regions = <<>> THEN <<>>
  ELSE LET ts == {i \in DOMAIN types : <<types[i], Head(regions)>> \in cap}
       IN IF ts # {}
            THEN <<types[CHOOSE i \in ts : \A j \in ts : i <= j], Head(regions)>>
            ELSE RegionMajorMatch(types, Tail(regions), cap)

RECURSIVE ImmediateMatch(_, _, _)
\* launch-requests POST, the immediate-launch loop over body.instanceTypes and
\* body.regions (every type was validated against getInstanceTypes before).
ImmediateMatch(types, regions, cap) ==
  IF types = <<>> THEN <<>>
  ELSE IF FirstRegion(Head(types), regions, cap) # "none"
    THEN <<Head(types), FirstRegion(Head(types), regions, cap)>>
  ELSE ImmediateMatch(Tail(types), regions, cap)

RECURSIVE FirstMatch(_, _, _)
\* cleanup Section 2, the match loop over lr.instanceTypes and lr.regions on the
\* instance types fetched (a type upstream does not list is passed over):
\* <<type, region>>, or <<>> when matchedType stays null.
FirstMatch(types, regions, cap) ==
  IF types = <<>> THEN <<>>
  ELSE IF Head(types) \in Types /\ FirstRegion(Head(types), regions, cap) # "none"
    THEN <<Head(types), FirstRegion(Head(types), regions, cap)>>
  ELSE FirstMatch(Tail(types), regions, cap)

\* Math.min(...instanceTypes.map((t) => types[t].instance_type.price_cents_per_hour))
CheapestPrice(types) ==
  LET ps == {PriceOf[types[i]] : i \in DOMAIN types}
  IN CHOOSE p \in ps : \A q \in ps : p <= q

\* A queue write that counts the failed immediate dispatch as an attempt.
QueuedRequestAttempted(email, types, regions, t) ==
  [candidateEmail |-> email, instanceTypes |-> types, regions |-> regions,
   status |-> "queued", createdAt |-> t, fulfilledAt |-> NULL,
   fulfilledInstanceId |-> NULL, failureReason |-> "none", cancelledAt |-> NULL,
   attempts |-> 1, lastAttemptAt |-> t]

\* The LaunchRequest launch-requests POST writes when it queues.
QueuedRequest(email, types, regions, t) ==
  [candidateEmail |-> email, instanceTypes |-> types, regions |-> regions,
   status |-> "queued", createdAt |-> t, fulfilledAt |-> NULL,
   fulfilledInstanceId |-> NULL, failureReason |-> "none", cancelledAt |-> NULL,
   attempts |-> 0, lastAttemptAt |-> NULL]

\* A fulfilled request that names an instance other than the one launched.
FulfilledRequestDangling(email, types, regions, t, instanceId) ==
  [candidateEmail |-> email, instanceTypes |-> types, regions |-> regions,
   status |-> "fulfilled", createdAt |-> t, fulfilledAt |-> t,
   fulfilledInstanceId |-> instanceId + 1, failureReason |-> "none",
   cancelledAt |-> NULL, attempts |-> 1, lastAttemptAt |-> t]

\* The LaunchRequest launch-requests POST writes after an immediate launch.
FulfilledRequest(email, types, regions, t, instanceId) ==
  [candidateEmail |-> email, instanceTypes |-> types, regions |-> regions,
   status |-> "fulfilled", createdAt |-> t, fulfilledAt |-> t,
   fulfilledInstanceId |-> instanceId, failureReason |-> "none", cancelledAt |-> NULL,
   attempts |-> 1, lastAttemptAt |-> t]

\* launch-requests POST: authentication, getInstanceTypes and the candidate
\* guards (active VM, pending request, soft quota) -- the reads.
SubmitGuards(h, e, types, regions) ==
  /\ Receive(h)
  /\ Cardinality(DOMAIN lrs) + Cardinality({g \in Handlers : hs[g].pc = "submit"}) < MaxReqs
  /\ UNCHANGED <<now, candidates, vms, lrs, seeds, sshKeys, inst, upKeys, upFs,
                 capacity, emitted, tk, ticksRun>>
  /\ IF ~AuthOK(candidates, e)
       THEN Respond("submit", 401) /\ UNCHANGED hs
     ELSE IF candidates[e].role = "candidate" /\ ActiveVMs(vms, e) # {}
       THEN Respond("submit", 400) /\ UNCHANGED hs
     ELSE IF candidates[e].role = "candidate" /\ PendingRequests(lrs, e) # {}
       THEN Respond("submit", 400) /\ UNCHANGED hs
     ELSE IF candidates[e].role = "candidate"
             /\ QuotaShort(candidates, vms, now, e, CheapestPrice(types))
       THEN Respond("submit", 403) /\ UNCHANGED hs
     ELSE /\ hs' = [hs EXCEPT ![h] =
                      [pc |-> "submit", email |-> e, role |-> candidates[e].role,
                       types |-> types, regions |-> regions,
                       match |-> ImmediateMatch(types, regions, capacity)]]
          /\ Quiet

\* launch-requests POST: SSH key registration, the hard quota re-check, the
\* immediate launch (VM record, fulfilled request) or the queue write.
\* keyfail: the key registration threw (500); fail: an upstream call of the
\* immediate dispatch threw, which falls through to the queue.
SubmitDoWith(h, outcome) ==
  LET e == hs[h].email
      m == hs[h].match
      id == CHOOSE i \in FreeRequestIds : \A j \in FreeRequestIds : i <= j
  IN
  /\ hs[h].pc = "submit"
  /\ Finish(h)
  /\ UNCHANGED <<now, candidates, seeds, upFs, capacity, emitted, tk, ticksRun, calls>>
  /\ IF outcome = "keyfail"
       THEN /\ Respond("submit", 500)
            /\ UNCHANGED <<vms, lrs, sshKeys, inst, upKeys>>
     ELSE
       /\ upKeys' = upKeys \cup {KeyName(e)}
       /\ sshKeys' = sshKeys \cup {e}
       /\ IF m # <<>> /\ hs[h].role = "candidate" /\ e \in DOMAIN candidates
             /\ QuotaShort(candidates, vms, now, e, PriceOf[m[1]])
            THEN /\ Respond("submit", 403)
                 /\ UNCHANGED <<vms, lrs, inst>>
          ELSE IF m # <<>> /\ outcome = "ok" /\ CanLaunch(m[1], m[2])
            THEN /\ Respond("submit", 201)
                 /\ inst' = [inst EXCEPT ![NextInstanceId] = "active"]
                 /\ vms' = Put(vms, NextInstanceId,
                               NewVM(e, m[1], m[2], PriceOf[m[1]], now))
                 /\ lrs' = Put(lrs, id, FulfilledRequest(e, hs[h].types, hs[h].regions,
                                                         now, NextInstanceId))
          ELSE /\ Respond("submit", 202)
               /\ lrs' = Put(lrs, id, QueuedRequest(e, hs[h].types, hs[h].regions, now))
               /\ UNCHANGED <<vms, inst>>

\* What the upstream calls of a submit may do.
SubmitOutcomes == {"ok", "keyfail", "fail"}

SubmitDo(h) == \E outcome \in SubmitOutcomes : SubmitDoWith(h, outcome)

\* -------------------------------------------- POST /api/launch-requests/cancel

\* launch-request-cancel without its status guard.
CancellableAlways(lr) == TRUE

\* if (lr.status !== "queued") return 400
Cancellable(lr) == lr.status = "queued"

\* launch-request-cancel: authentication, getLaunchRequest and the guards.
CancelGuards(h, e, id) ==
  /\ Receive(h)
  /\ UNCHANGED <<now, candidates, vms, lrs, seeds, sshKeys, inst, upKeys, upFs,
                 capacity, emitted, tk, ticksRun>>
  /\ IF ~AuthOK(candidates, e)
       THEN Respond("cancel", 401) /\ UNCHANGED hs
     ELSE IF id \notin DOMAIN lrs
       THEN Respond("cancel", 404) /\ UNCHANGED hs
     ELSE IF candidates[e].role # "admin" /\ lrs[id].candidateEmail # e
       THEN Respond("cancel", 403) /\ UNCHANGED hs
     ELSE IF ~Cancellable(lrs[id])
       THEN Respond("cancel", 400) /\ UNCHANGED hs
     ELSE /\ hs' = [hs EXCEPT ![h] = [pc |-> "cancel", email |-> e, id |-> id,
                                      lr |-> lrs[id]]]
          /\ Quiet

\* launch-request-cancel: putLaunchRequest of the record it read, as cancelled.
CancelDo(h) ==
  /\ hs[h].pc = "cancel"
  /\ Finish(h)
  /\ Respond("cancel", 200)
  /\ lrs' = Put(lrs, hs[h].id,
                [hs[h].lr EXCEPT !.status = "cancelled", !.cancelledAt = now])
  /\ UNCHANGED <<now, candidates, vms, seeds, sshKeys, inst, upKeys, upFs,
                 capacity, emitted, tk, ticksRun, calls>>

\* ---------------------------------------------- DELETE /api/admin/candidates

\* The record admin-candidates DELETE writes for each active VM of the candidate.
RemovedVM(vm, t) ==
  [vm EXCEPT !.status = "terminated", !.terminatedAt = t,
             !.terminationReason = "account_removed",
             !.accruedCents = AccruedCents(vm.launchedAt, t, vm.priceCentsPerHour)]

\* if (lr.status === "queued" || lr.status === "provisioning") of the DELETE handler
RemovalCancels(lr) == lr.status \in {"queued", "provisioning"}

\* admin-candidates DELETE: authentication, requireAdmin, getCandidate, the
\* guards and listVMsByEmail (the reads).
RemoveGuards(h, adm, email) ==
  /\ Receive(h)
  /\ UNCHANGED <<now, candidates, vms, lrs, seeds, sshKeys, inst, upKeys, upFs,
                 capacity, emitted, tk, ticksRun>>
  /\ IF ~AuthOK(candidates, adm)
       THEN Respond("remove", 401) /\ UNCHANGED hs
     ELSE IF candidates[adm].role # "admin"
       THEN Respond("remove", 403) /\ UNCHANGED hs
     ELSE IF email \notin DOMAIN candidates
       THEN Respond("remove", 404) /\ UNCHANGED hs
     ELSE IF candidates[email].deactivatedAt # NULL \/ email = adm
       THEN Respond("remove", 400) /\ UNCHANGED hs
     ELSE /\ hs' = [hs EXCEPT ![h] =
                      [pc |-> "remove", email |-> email, existing |-> candidates[email],
                       active |-> [i \in ActiveVMs(vms, email) |-> vms[i]]]]
          /\ Quiet

\* admin-candidates DELETE: the upstream terminate (its failure is logged and
\* ignored), the VM records, the SSH key, the launch requests and the
\* candidate record.
RemoveDo(h) ==
  LET email == hs[h].email
      act == hs[h].active
      vms2 == [i \in (DOMAIN vms) \cup (DOMAIN act) |->
                 IF i \in DOMAIN act THEN RemovedVM(act[i], now) ELSE vms[i]]
  IN
  /\ hs[h].pc = "remove"
  /\ Finish(h)
  /\ Respond("remove", 200)
  /\ UNCHANGED <<now, seeds, upFs, capacity, emitted, tk, ticksRun, calls>>
  /\ \E upstreamOk \in BOOLEAN :
       inst' = IF upstreamOk
                 THEN [i \in InstanceIds |-> IF i \in DOMAIN act THEN "terminated" ELSE inst[i]]
                 ELSE inst
  /\ vms' = vms2
  /\ upKeys' = upKeys \ {KeyName(email)}
  /\ sshKeys' = sshKeys \ {email}
  /\ lrs' = [i \in DOMAIN lrs |->
               IF lrs[i].candidateEmail = email /\ RemovalCancels(lrs[i])
                 THEN [lrs[i] EXCEPT !.status = "cancelled", !.cancelledAt = now,
                                     !.failureReason = "candidate_deactivated"]
                 ELSE lrs[i]]
  /\ candidates' = Put(candidates, email,
                       [hs[h].existing EXCEPT !.deactivatedAt = now, !.quotaDollars = 0])

\* --------------------------------------------- POST /api/admin/candidates

\* The record admin-candidates POST builds: spending is reset when the
\* candidate is new or was deactivated; existing is what getCandidate
\* returned, <<>> for null and <<record>> otherwise.
AddedCandidate(existing, adm, role, quota, t) ==
  LET isNew == existing = <<>>
      resetSpending == isNew \/ existing[1].deactivatedAt # NULL
  IN [role |-> role, quotaDollars |-> quota,
      spentCents |-> IF resetSpending THEN 0 ELSE existing[1].spentCents,
      spentResetAt |-> IF resetSpending THEN t ELSE existing[1].spentResetAt,
      deactivatedAt |-> IF resetSpending THEN NULL ELSE existing[1].deactivatedAt]

\* admin-candidates POST: authentication, requireAdmin and getCandidate.
AddGuards(h, adm, email, role, quota) ==
  /\ Receive(h)
  /\ UNCHANGED <<now, candidates, vms, lrs, seeds, sshKeys, inst, upKeys, upFs,
                 capacity, emitted, tk, ticksRun>>
  /\ IF ~AuthOK(candidates, adm)
       THEN Respond("add", 401) /\ UNCHANGED hs
     ELSE IF candidates[adm].role # "admin"
       THEN Respond("add", 403) /\ UNCHANGED hs
     ELSE /\ hs' = [hs EXCEPT ![h] =
                      [pc |-> "add", email |-> email, adm |-> adm, role |-> role,
                       quota |-> quota,
                       existing |-> IF email \in DOMAIN candidates
                                      THEN <<candidates[email]>> ELSE <<>>]]
          /\ Quiet

\* admin-candidates POST: putCandidate of the record built from the copy
\* read, answered 201 for a new candidate and 200 otherwise.
AddDo(h) ==
  /\ hs[h].pc = "add"
  /\ Finish(h)
  /\ Respond("add", IF hs[h].existing = <<>> THEN 201 ELSE 200)
  /\ candidates' = Put(candidates, hs[h].email,
                       AddedCandidate(hs[h].existing, hs[h].adm, hs[h].role,
                                      hs[h].quota, now))
  /\ UNCHANGED <<now, vms, lrs, seeds, sshKeys, inst, upKeys, upFs, capacity,
                 emitted, tk, ticksRun, calls>>

\* ------------------------------------------------------- GET /api/auth/me

\* auth-me: authentication, which reads the candidate record.  The request
\* writes nothing and is not counted in calls.
AuthMeStart(h, e) ==
  /\ hs[h].pc = "idle"
  /\ UNCHANGED <<now, candidates, vms, lrs, seeds, sshKeys, inst, upKeys, upFs,
                 capacity, emitted, tk, ticksRun, calls>>
  /\ IF ~AuthOK(candidates, e)
       THEN Respond("me", 401) /\ UNCHANGED hs
       ELSE /\ hs' = [hs EXCEPT ![h] = [pc |-> "me", email |-> e,
                                        candidate |-> candidates[e]]]
            /\ Quiet

\* auth-me: computeSpentCents(candidate.email, candidate.spentResetAt) over
\* the VMs as stored now, and the response.
AuthMeDo(h) ==
  /\ hs[h].pc = "me"
  /\ Finish(h)
  /\ last' = [op |-> "me", code |-> 200, email |-> hs[h].email,
              quotaDollars |-> hs[h].candidate.quotaDollars,
              spentCents |-> ComputeSpentCents(vms, now, hs[h].email,
                                               hs[h].candidate.spentResetAt)]
  /\ UNCHANGED <<now, candidates, vms, lrs, seeds, sshKeys, inst, upKeys, upFs,
                 capacity, emitted, tk, ticksRun, calls>>

\* ------------------------------------------------------------ GET /api/vms

\* vm-list: the record the refresh writes for one active VM of its listing,
\* given the upstream status ("error" when getInstance threw); the record
\* itself when nothing changed.
RefreshedVM(vm, live, t) ==
  IF live = "error"
    THEN [vm EXCEPT !.status = "unknown", !.terminatedAt = t,
                    !.terminationReason = "not_found"]
  ELSE IF live = "terminated"
    THEN [vm EXCEPT !.status = "terminated", !.terminatedAt = t,
                    !.terminationReason = "terminated_externally"]
  ELSE IF live # vm.status THEN [vm EXCEPT !.status = live]
  ELSE vm

\* vm-list: authentication and the listing (listVMs for an admin,
\* listVMsByEmail for a candidate).
ListGuards(h, e) ==
  /\ Receive(h)
  /\ UNCHANGED <<now, candidates, vms, lrs, seeds, sshKeys, inst, upKeys, upFs,
                 capacity, emitted, tk, ticksRun>>
  /\ IF ~AuthOK(candidates, e)
       THEN Respond("list", 401) /\ UNCHANGED hs
     ELSE LET seen == IF candidates[e].role = "admin" THEN DOMAIN vms
                      ELSE VMsByEmail(vms, e)
          IN /\ hs' = [hs EXCEPT ![h] =
                         [pc |-> "list",
                          active |-> [i \in {j \in seen : vms[j].terminatedAt = NULL}
                                        |-> vms[i]]]]
             /\ Quiet

\* vm-list: getInstance for every active VM of the listing and putVM of the
\* ones that changed.  errs: the VMs whose getInstance threw.
ListRefresh(h) ==
  LET act == hs[h].active IN
  /\ hs[h].pc = "list"
  /\ Finish(h)
  /\ Respond("list", 200)
  /\ UNCHANGED <<now, candidates, lrs, seeds, sshKeys, inst, upKeys, upFs,
                 capacity, emitted, tk, ticksRun, calls>>
  /\ \E errs \in SUBSET (DOMAIN act) :
       /\ \A i \in DOMAIN act : inst[i] = "absent" => i \in errs
       /\ vms' = [i \in DOMAIN vms |->
                    IF i \in DOMAIN act
                         /\ RefreshedVM(act[i], IF i \in errs THEN "error" ELSE inst[i], now)
                              # act[i]
                      THEN RefreshedVM(act[i], IF i \in errs THEN "error" ELSE inst[i], now)
                      ELSE vms[i]]

\* ------------------------------------------- cleanup (the scheduled Reconciler)

TickFinish(k) == tk' = [tk EXCEPT ![k] = Idle]

\* const activeVMs = vms.filter((vm) => !vm.terminatedAt)
TickActive(tvms) == {i \in DOMAIN tvms : tvms[i].terminatedAt = NULL}

\* if (!live || live.status === "terminated")
Gone(liveStatus) == liveStatus \in {"absent", "terminated"}

\* A VM loop whose terminated branch leaves accruedCents as it was.
SyncedKeepsAccrued(vm, liveStatus, t) ==
  IF Gone(liveStatus)
    THEN [vm EXCEPT !.status = "terminated", !.terminatedAt = t,
                    !.terminationReason = "terminated_externally"]
    ELSE [vm EXCEPT !.status = liveStatus,
                    !.accruedCents = AccruedCents(vm.launchedAt, t, vm.priceCentsPerHour)]

\* Section 1, the VM loop: the record putVM writes for an active VM of the listing.
SyncedVM(vm, liveStatus, t) ==
  IF Gone(liveStatus)
    THEN [vm EXCEPT !.accruedCents = AccruedCents(vm.launchedAt, t, vm.priceCentsPerHour),
                    !.status = "terminated", !.terminatedAt = t,
                    !.terminationReason = "terminated_externally"]
    ELSE [vm EXCEPT !.status = liveStatus,
                    !.accruedCents = AccruedCents(vm.launchedAt, t, vm.priceCentsPerHour)]

\* Section 1, the VM loop: the delta added to candidateUpdates.  In the
\* terminated branch prevAccrued is read back through vms.find(), which
\* returns the object the loop has just updated (activeVMs holds the objects
\* of vms), so the delta is 0 there.
SyncDelta(vm, liveStatus, t) ==
  LET new == AccruedCents(vm.launchedAt, t, vm.priceCentsPerHour)
      delta == IF Gone(liveStatus) THEN 0 ELSE new - vm.accruedCents
  IN IF delta > 0 THEN delta ELSE 0

\* candidateUpdates.get(email) after the VM loop
AddedCents(tvms, live, t, email) ==
  LET mine == {i \in TickActive(tvms) : tvms[i].candidateEmail = email}
  IN SumOver([i \in mine |-> SyncDelta(tvms[i], live[i], t)], mine)

\* A candidate loop without the quota check.
KillReasonNoQuota(cs, tvms, live, t, email) ==
  IF email \notin DOMAIN cs \/ cs[email].deactivatedAt # NULL THEN "account_removed"
  ELSE "none"

\* Section 1, the candidate loop: why the candidate's active VMs are
\* terminated ("none": they are not), cs being the candidates store as read.
KillReason(cs, tvms, live, t, email) ==
  IF email \notin DOMAIN cs \/ cs[email].deactivatedAt # NULL THEN "account_removed"
  ELSE IF cs[email].role = "candidate"
          /\ cs[email].spentCents + AddedCents(tvms, live, t, email)
               >= cs[email].quotaDollars * 100
    THEN "quota_exceeded"
  ELSE "none"

\* Section 1: the record of an active VM of the listing after the VM loop and
\* the candidate loop.
ReconciledVM(cs, tvms, live, t, i) ==
  LET vm == SyncedVM(tvms[i], live[i], t)
      why == KillReason(cs, tvms, live, t, vm.candidateEmail)
  IN IF vm.terminatedAt = NULL /\ why # "none"
       THEN [vm EXCEPT !.terminatedAt = t, !.terminationReason = why,
                       !.status = "terminated"]
       ELSE vm

\* Section 1: toTerminate
ToTerminate(cs, tvms, live, t) ==
  {i \in TickActive(tvms) :
     ~Gone(live[i]) /\ KillReason(cs, tvms, live, t, tvms[i].candidateEmail) # "none"}

\* cleanup: listVMs and, when a VM is active, listInstances.  A failing
\* listInstances ends the invocation with a 500.
TickStartUpTo(k, n) ==
  /\ tk[k].pc = "idle"
  /\ ticksRun < n
  /\ ticksRun' = ticksRun + 1
  /\ UNCHANGED <<now, candidates, vms, lrs, seeds, sshKeys, inst, upKeys, upFs,
                 capacity, emitted, hs, calls>>
  /\ IF TickActive(vms) = {}
       THEN /\ tk' = [tk EXCEPT ![k] = [pc |-> "listq"]]
            /\ Quiet
       ELSE \E listOk \in BOOLEAN :
              IF listOk
                THEN /\ tk' = [tk EXCEPT ![k] = [pc |-> "passA", tvms |-> vms, live |-> inst]]
                     /\ Quiet
                ELSE /\ TickFinish(k)
                     /\ Respond("tick", 500)

\* An invocation of cleanup, MaxTicks of them in a behaviour.
TickStart(k) == TickStartUpTo(k, MaxTicks)

\* cleanup Section 1 on the listings of TickStart: VM sync and accrual,
\* candidate spentCents and quota / account enforcement, the batched upstream
\* terminate (its failure is logged and ignored) and the SSH key deletion
\* (failed: the candidates whose listSshKeys / deleteSshKey call threw, which
\* is logged and ignored as well).
TickPassA(k) ==
  LET tvms == tk[k].tvms
      live == tk[k].live
      act == TickActive(tvms)
      touched == {tvms[i].candidateEmail : i \in act}
      kill == ToTerminate(candidates, tvms, live, now)
      vms2 == [i \in (DOMAIN vms) \cup act |->
                 IF i \in act THEN ReconciledVM(candidates, tvms, live, now, i) ELSE vms[i]]
      keyless == {e \in touched :
                    /\ \E i \in act : tvms[i].candidateEmail = e /\ vms2[i].terminatedAt # NULL
                    /\ ActiveVMs(vms2, e) = {}}
  IN
  /\ tk[k].pc = "passA"
  /\ tk' = [tk EXCEPT ![k] = [pc |-> "listq"]]
  /\ UNCHANGED <<now, lrs, seeds, upFs, capacity, emitted, hs, ticksRun, calls>> /\ Quiet
  /\ vms' = vms2
  /\ candidates' =
       [e \in DOMAIN candidates |->
          IF e \in touched /\ candidates[e].deactivatedAt = NULL
            THEN [candidates[e] EXCEPT !.spentCents = @ + AddedCents(tvms, live, now, e)]
            ELSE candidates[e]]
  /\ \E upstreamOk \in BOOLEAN :
       /\ (kill = {}) => upstreamOk
       /\ inst' = IF upstreamOk
                    THEN [i \in InstanceIds |-> IF i \in kill THEN "terminated" ELSE inst[i]]
                    ELSE inst
  /\ \E failed \in SUBSET keyless :
       /\ upKeys' = upKeys \ {KeyName(e) : e \in keyless \ failed}
       /\ sshKeys' = sshKeys \ (keyless \ failed)

\* listQueuedLaunchRequests(): the ids of the requests stored as queued
QueuedIds(ls) == {i \in DOMAIN ls : ls[i].status = "queued"}

\* The queued ids in any order: the listing without the sort.
UnsortedQueues(ls) ==
  LET ids == {i \in DOMAIN ls : ls[i].status = "queued"}
      n == Cardinality(ids)
  IN {q \in [1..n -> ids] : \A i, j \in 1..n : i # j => q[i] # q[j]}

\* queuedRequests.sort(by createdAt): the orders of the queued ids that are
\* non-decreasing in createdAt (the order of equal createdAt is that of the
\* listing, which follows the random request ids).
SortedQueues(ls) ==
  LET ids == QueuedIds(ls)
      n == Cardinality(ids)
  IN {q \in [1..n -> ids] :
        /\ \A i, j \in 1..n : i # j => q[i] # q[j]
        /\ \A i, j \in 1..n : i < j => ls[q[i]].createdAt <= ls[q[j]].createdAt}

\* Section 2: the tick's position after one request: the next request of the
\* queue, or Section 3.
TickAfterRequest(k) ==
  IF Len(tk[k].tq) > 1
    THEN [pc |-> "dispatch", tq |-> Tail(tk[k].tq), tlrs |-> tk[k].tlrs, cap |-> tk[k].cap]
    ELSE [pc |-> "seeds"]

\* cleanup Section 2: listQueuedLaunchRequests and getInstanceTypes.  With no
\* queued request, or with getInstanceTypes failing, the invocation returns.
TickListQueue(k) ==
  /\ tk[k].pc = "listq"
  /\ UNCHANGED <<now, candidates, vms, lrs, seeds, sshKeys, inst, upKeys, upFs,
                 capacity, emitted, hs, ticksRun, calls>>
  /\ IF QueuedIds(lrs) = {}
       THEN TickFinish(k) /\ Respond("tick", 200)
       ELSE \E typesOk \in BOOLEAN :
              IF typesOk
                THEN /\ \E q \in SortedQueues(lrs) :
                          tk' = [tk EXCEPT ![k] = [pc |-> "dispatch", tq |-> q,
                                                   tlrs |-> lrs, cap |-> capacity]]
                     /\ Quiet
                ELSE TickFinish(k) /\ Respond("tick", 200)

\* Pre-flight checks that do not look at the candidate record.
DispatchAnyCandidate(cs, vs, t, lr, cap) ==
  LET e == lr.candidateEmail
      m == FirstMatch(lr.instanceTypes, lr.regions, cap)
  IN IF e \in DOMAIN cs /\ cs[e].role = "candidate" /\ ActiveVMs(vs, e) # {} THEN "skip"
     ELSE IF m = <<>> THEN "nocapacity"
     ELSE "provision"

\* Pre-flight checks that do not look for an active VM.
DispatchNoSkip(cs, vs, t, lr, cap) ==
  LET e == lr.candidateEmail
      m == FirstMatch(lr.instanceTypes, lr.regions, cap)
  IN IF e \notin DOMAIN cs \/ cs[e].deactivatedAt # NULL THEN "cancel"
     ELSE IF m = <<>> THEN "nocapacity"
     ELSE IF cs[e].role = "candidate" /\ QuotaShort(cs, vs, t, e, PriceOf[m[1]]) THEN "fail"
     ELSE "provision"

\* Pre-flight checks without the quota check.
DispatchNoQuota(cs, vs, t, lr, cap) ==
  LET e == lr.candidateEmail
      m == FirstMatch(lr.instanceTypes, lr.regions, cap)
  IN IF e \notin DOMAIN cs \/ cs[e].deactivatedAt # NULL THEN "cancel"
     ELSE IF cs[e].role = "candidate" /\ ActiveVMs(vs, e) # {} THEN "skip"
     ELSE IF m = <<>> THEN "nocapacity"
     ELSE "provision"

\* A tick that never finds capacity for a request.
DispatchNoCapacity(cs, vs, t, lr, cap) ==
  LET e == lr.candidateEmail
  IN IF e \notin DOMAIN cs \/ cs[e].deactivatedAt # NULL THEN "cancel"
     ELSE IF cs[e].role = "candidate" /\ ActiveVMs(vs, e) # {} THEN "skip"
     ELSE "nocapacity"

\* Section 2, one request up to the launch: what the pre-flight checks decide.
DispatchDecision(cs, vs, t, lr, cap) ==
  LET e == lr.candidateEmail
      m == FirstMatch(lr.instanceTypes, lr.regions, cap)
  IN IF e \notin DOMAIN cs \/ cs[e].deactivatedAt # NULL THEN "cancel"
     ELSE IF cs[e].role = "candidate" /\ ActiveVMs(vs, e) # {} THEN "skip"
     ELSE IF m = <<>> THEN "nocapacity"
     ELSE IF cs[e].role = "candidate" /\ QuotaShort(cs, vs, t, e, PriceOf[m[1]]) THEN "fail"
     ELSE "provision"

\* Section 2, one request up to the launch: the record putLaunchRequest writes
\* (the tick's copy of the request, changed).
DispatchedRequest(lr, decision, t) ==
  CASE decision = "cancel" ->
         [lr EXCEPT !.status = "cancelled", !.cancelledAt = t,
                    !.failureReason = "candidate_deactivated"]
    [] decision = "nocapacity" ->
         [lr EXCEPT !.attempts = @ + 1, !.lastAttemptAt = t]
    [] decision = "fail" ->
         [lr EXCEPT !.status = "failed", !.failureReason = "insufficient_quota"]
    [] decision = "provision" ->
         [lr EXCEPT !.status = "provisioning", !.lastAttemptAt = t, !.attempts = @ + 1]
    [] OTHER -> lr

\* cleanup Section 2, the head of the queue: the pre-flight checks on the
\* candidate and the VMs as stored now, the capacity match on the types
\* fetched by TickListQueue, and the request written as cancelled, failed,
\* retried or provisioning.
TickDispatch(k) ==
  LET id == Head(tk[k].tq)
      lr == tk[k].tlrs[id]
      d == DispatchDecision(candidates, vms, now, lr, tk[k].cap)
      lr2 == DispatchedRequest(lr, d, now)
  IN
  /\ tk[k].pc = "dispatch"
  /\ UNCHANGED <<now, candidates, vms, seeds, sshKeys, inst, upKeys, upFs,
                 capacity, emitted, hs, ticksRun, calls>> /\ Quiet
  /\ lrs' = IF d = "skip" THEN lrs ELSE Put(lrs, id, lr2)
  /\ tk' = [tk EXCEPT ![k] =
              IF d = "provision"
                THEN [pc |-> "launch", tq |-> tk[k].tq, tlrs |-> tk[k].tlrs,
                      cap |-> tk[k].cap, lr |-> lr2,
                      match |-> FirstMatch(lr.instanceTypes, lr.regions, tk[k].cap)]
                ELSE TickAfterRequest(k)]

\* cleanup Section 2, the request written as provisioning: SSH key
\* registration, resolveFilesystems, the upstream launch, the VM record and
\* the request written as fulfilled; on a failure the request is written as
\* queued.  keyfail: the key registration threw; fail: resolveFilesystems or
\* launchInstance threw a transient error; permanent: launchInstance threw an
\* error that no retry can cure.  The catch does not look at the error.
TickLaunchWith(k, outcome) ==
  LET id == Head(tk[k].tq)
      lr == tk[k].lr
      e == lr.candidateEmail
      m == tk[k].match
  IN
  /\ tk[k].pc = "launch"
  /\ tk' = [tk EXCEPT ![k] = TickAfterRequest(k)]
  /\ UNCHANGED <<now, candidates, seeds, upFs, capacity, emitted, hs, ticksRun, calls>> /\ Quiet
  /\ CASE outcome = "keyfail" ->
         /\ lrs' = Put(lrs, id, [lr EXCEPT !.status = "queued"])
         /\ UNCHANGED <<vms, sshKeys, inst, upKeys>>
    [] outcome \in {"fail", "permanent"} ->
         /\ lrs' = Put(lrs, id, [lr EXCEPT !.status = "queued"])
         /\ upKeys' = upKeys \cup {KeyName(e)}
         /\ sshKeys' = sshKeys \cup {e}
         /\ UNCHANGED <<vms, inst>>
    [] outcome = "ok" ->
         /\ CanLaunch(m[1], m[2])
         /\ upKeys' = upKeys \cup {KeyName(e)}
         /\ sshKeys' = sshKeys \cup {e}
         /\ inst' = [inst EXCEPT ![NextInstanceId] = "active"]
         /\ vms' = Put(vms, NextInstanceId, NewVM(e, m[1], m[2], PriceOf[m[1]], now))
         /\ lrs' = Put(lrs, id, [lr EXCEPT !.status = "fulfilled", !.fulfilledAt = now,
                                           !.fulfilledInstanceId = NextInstanceId])

\* The launch step of Section 2 with any of its outcomes.
LaunchOutcomes == {"ok", "keyfail", "fail", "permanent"}
TickLaunch(k) == \E outcome \in LaunchOutcomes : TickLaunchWith(k, outcome)

\* cleanup Section 2, the request written as provisioning: the invocation
\* ends there, because getSettings (called outside any try) threw or the
\* function ran out of time.  Nothing more is written.
TickAbort(k) ==
  /\ tk[k].pc = "launch"
  /\ TickFinish(k)
  /\ Respond("tick", 500)
  /\ UNCHANGED <<now, candidates, vms, lrs, seeds, sshKeys, inst, upKeys, upFs,
                 capacity, emitted, hs, ticksRun, calls>>

\* if (ss.status === "seeding" && ss.claimedAt) and age > 60 * 60 * 1000
StaleClaim(ss, t) == ss.status = "seeding" /\ ss.claimedAt # NULL /\ t - ss.claimedAt > StaleUnits

\* cleanup Section 3: listSeedStatuses.
TickListSeeds(k) ==
  /\ tk[k].pc = "seeds"
  /\ UNCHANGED <<now, candidates, vms, lrs, seeds, sshKeys, inst, upKeys, upFs,
                 capacity, emitted, hs, ticksRun, calls>>
  /\ IF DOMAIN seeds = {}
       THEN TickFinish(k) /\ Respond("tick", 200)
       ELSE /\ tk' = [tk EXCEPT ![k] = [pc |-> "seedclean", snap |-> seeds]]
            /\ Quiet

\* cleanup Section 3: deleteSeedStatus of every listed claim that is stale.
TickCleanSeeds(k) ==
  LET snap == tk[k].snap
      stale == {key \in DOMAIN snap : StaleClaim(snap[key], now)}
  IN
  /\ tk[k].pc = "seedclean"
  /\ TickFinish(k)
  /\ Respond("tick", 200)
  /\ seeds' = [key \in (DOMAIN seeds) \ stale |-> seeds[key]]
  /\ UNCHANGED <<now, candidates, vms, lrs, sshKeys, inst, upKeys, upFs,
                 capacity, emitted, hs, ticksRun, calls>>

\* ------------------------------------------------------ resolveFilesystems

\* settings.defaultFilesystems, by name, where the resolver is modelled with
\* default filesystems configured.
DefaultFilesystems == <<"shared">>

FsKeys == {<<DefaultFilesystems[i], r>> : i \in DOMAIN DefaultFilesystems, r \in Regions}

RECURSIVE SkipMatched(_, _, _)
\* The default-filesystem loop up to its next await: entries found in the
\* listing are attached without a call; the rest starts at the first entry
\* that has to be created.
SkipMatched(todo, region, listing) ==
  IF todo = <<>> THEN <<>>
  ELSE IF <<Head(todo), region>> \in listing THEN SkipMatched(Tail(todo), region, listing)
  ELSE todo

\* `sudo mount -o remount,ro /lambda/nfs/${dfs.name} ...`, by its mount path
ReadonlyMount(name) == <<"/lambda/nfs/", name>>

\* if (!fileSystemNames.includes(match.name)) fileSystemNames.push(match.name)
Attach(names, name) ==
  IF \E i \in DOMAIN names : names[i] = name THEN names ELSE Append(names, name)

RECURSIVE AttachMatched(_, _, _, _)
\* fileSystemNames after the entries SkipMatched passes over
AttachMatched(todo, region, listing, names) ==
  IF todo = <<>> THEN names
  ELSE IF <<Head(todo), region>> \in listing
    THEN AttachMatched(Tail(todo), region, listing, Attach(names, Head(todo)))
  ELSE names

RECURSIVE RemountMatched(_, _, _, _)
\* readonlyMounts after the entries SkipMatched passes over
RemountMatched(todo, region, listing, mounts) ==
  IF todo = <<>> THEN mounts
  ELSE IF <<Head(todo), region>> \in listing
    THEN RemountMatched(Tail(todo), region, listing,
                        Append(mounts, ReadonlyMount(Head(todo))))
  ELSE mounts

\* A create branch that remounts read-only only for the caller that seeds.
MountsOnlyIfClaimed(mounts, name, claimed) ==
  IF claimed THEN Append(mounts, ReadonlyMount(name)) ELSE mounts

\* readonlyMounts.push(...) after claimSeedingLock: "User VM gets readonly
\* mount regardless"
MountsAfterClaim(mounts, name, claimed) == Append(mounts, ReadonlyMount(name))

\* return { fileSystemNames, loaderVMs, readonlyRemountScript }
ResolveResult(names, loaders, mounts) ==
  [op |-> "resolve", code |-> 200, fileSystemNames |-> names, loaderVMs |-> loaders,
   readonlyMounts |-> mounts]

\* claimSeedingLock without its refusals.
ClaimRefusedNever(existing, t) == FALSE

\* claimSeedingLock refusing a claim that is exactly staleMinutes old as well.
ClaimRefusedAtStale(existing, t) ==
  existing.status = "ready" \/ t - existing.claimedAt <= StaleUnits

\* claimSeedingLock: if (existing) { ready -> false; age < staleMinutes -> false }
ClaimRefused(existing, t) ==
  existing.status = "ready" \/ t - existing.claimedAt < StaleUnits

\* The SeedStatus claimSeedingLock writes.
SeedingClaim(claimId, t) ==
  [status |-> "seeding", seedingInstanceId |-> claimId, claimedAt |-> t,
   completedAt |-> NULL]

\* The loop goes on with the entries rest, or the call returns.
ResolveContinue(h, rest, loaders, names, mounts) ==
  LET r == SkipMatched(rest, hs[h].region, hs[h].listing)
      names2 == AttachMatched(rest, hs[h].region, hs[h].listing, names)
      mounts2 == RemountMatched(rest, hs[h].region, hs[h].listing, mounts)
  IN
  IF r = <<>>
    THEN /\ Finish(h)
         /\ last' = ResolveResult(names2, loaders, mounts2)
         /\ emitted' = [key \in FsKeys |->
                          emitted[key]
                            + Cardinality({i \in DOMAIN loaders :
                                             <<loaders[i], hs[h].region>> = key})]
    ELSE /\ hs' = [hs EXCEPT ![h] = [pc |-> "create", region |-> hs[h].region,
                                     listing |-> hs[h].listing, todo |-> r,
                                     loaders |-> loaders, fileSystemNames |-> names2,
                                     readonlyMounts |-> mounts2]]
         /\ Quiet /\ UNCHANGED emitted

\* resolveFilesystems (no personal filesystem): listFilesystems and the
\* entries of the loop that need no call.
ResolveStart(h, region) ==
  LET r == SkipMatched(DefaultFilesystems, region, upFs)
      names == AttachMatched(DefaultFilesystems, region, upFs, <<>>)
      mounts == RemountMatched(DefaultFilesystems, region, upFs, <<>>)
  IN
  /\ Receive(h)
  /\ UNCHANGED <<now, candidates, vms, lrs, seeds, sshKeys, inst, upKeys, upFs,
                 capacity, tk, ticksRun>>
  /\ IF r = <<>>
       THEN last' = ResolveResult(names, <<>>, mounts) /\ UNCHANGED <<hs, emitted>>
       ELSE /\ hs' = [hs EXCEPT ![h] = [pc |-> "create", region |-> region,
                                        listing |-> upFs, todo |-> r, loaders |-> <<>>,
                                        fileSystemNames |-> names,
                                        readonlyMounts |-> mounts]]
            /\ Quiet /\ UNCHANGED emitted

\* resolveFilesystems: createFilesystem for the entry at the head and
\* fileSystemNames.push(created.name); when it throws the entry is skipped.
ResolveCreate(h) ==
  /\ hs[h].pc = "create"
  /\ UNCHANGED <<now, candidates, vms, lrs, seeds, sshKeys, inst, upKeys,
                 capacity, tk, ticksRun, calls>>
  /\ \E created \in BOOLEAN :
       IF created
         THEN /\ upFs' = upFs \cup {<<Head(hs[h].todo), hs[h].region>>}
              /\ hs' = [hs EXCEPT ![h].pc = "claim",
                                  ![h].fileSystemNames = Append(@, Head(hs[h].todo))]
              /\ Quiet /\ UNCHANGED emitted
         ELSE /\ UNCHANGED upFs
              /\ ResolveContinue(h, Tail(hs[h].todo), hs[h].loaders,
                                 hs[h].fileSystemNames, hs[h].readonlyMounts)

\* claimSeedingLock: getSeedStatus and the decision.
ClaimRead(h) ==
  LET key == <<Head(hs[h].todo), hs[h].region>> IN
  /\ hs[h].pc = "claim"
  /\ UNCHANGED <<now, candidates, vms, lrs, seeds, sshKeys, inst, upKeys, upFs,
                 capacity, tk, ticksRun, calls>>
  /\ IF key \in DOMAIN seeds /\ ClaimRefused(seeds[key], now)
       THEN ResolveContinue(h, Tail(hs[h].todo), hs[h].loaders, hs[h].fileSystemNames,
                            MountsAfterClaim(hs[h].readonlyMounts, Head(hs[h].todo), FALSE))
       ELSE /\ hs' = [hs EXCEPT ![h].pc = "claimput"]
            /\ Quiet /\ UNCHANGED emitted

\* claimSeedingLock: putSeedStatus, and the loader spec of the claimed entry.
ClaimWrite(h) ==
  LET key == <<Head(hs[h].todo), hs[h].region>> IN
  /\ hs[h].pc = "claimput"
  /\ seeds' = Put(seeds, key, SeedingClaim(h, now))
  /\ ResolveContinue(h, Tail(hs[h].todo), Append(hs[h].loaders, Head(hs[h].todo)),
                     hs[h].fileSystemNames,
                     MountsAfterClaim(hs[h].readonlyMounts, Head(hs[h].todo), TRUE))
  /\ UNCHANGED <<now, candidates, vms, lrs, sshKeys, inst, upKeys, upFs,
                 capacity, tk, ticksRun, calls>>

\* -------------------------------------------------- POST /api/seed-complete

\* seed-complete without its ready guard.
AlreadyReadyNever(status) == FALSE

\* if (status.status === "ready") return 200 "Already marked as ready"
AlreadyReady(status) == status.status = "ready"

\* seed-complete: the bearer token against settings.seedCompleteSecret, and
\* the request body.
SeedCompleteStart(h, tokenOk, name, region) ==
  /\ Receive(h)
  /\ UNCHANGED <<now, candidates, vms, lrs, seeds, sshKeys, inst, upKeys, upFs,
                 capacity, emitted, tk, ticksRun>>
  /\ IF ~tokenOk
       THEN Respond("seedcomplete", 401) /\ UNCHANGED hs
       ELSE /\ hs' = [hs EXCEPT ![h] = [pc |-> "seedget", name |-> name,
                                        region |-> region]]
            /\ Quiet

\* seed-complete: getSeedStatus, the 404 and the 200 of a status already ready.
SeedCompleteGet(h) ==
  LET key == <<hs[h].name, hs[h].region>> IN
  /\ hs[h].pc = "seedget"
  /\ UNCHANGED <<now, candidates, vms, lrs, seeds, sshKeys, inst, upKeys, upFs,
                 capacity, emitted, tk, ticksRun, calls>>
  /\ IF key \notin DOMAIN seeds
       THEN Respond("seedcomplete", 404) /\ Finish(h)
     ELSE IF AlreadyReady(seeds[key])
       THEN Respond("seedcomplete", 200) /\ Finish(h)
     ELSE /\ hs' = [hs EXCEPT ![h] = [pc |-> "seedput", name |-> hs[h].name,
                                      region |-> hs[h].region, status |-> seeds[key]]]
          /\ Quiet

\* seed-complete: putSeedStatus of the status it read, as ready.
SeedCompletePut(h) ==
  /\ hs[h].pc = "seedput"
  /\ Finish(h)
  /\ Respond("seedcomplete", 200)
  /\ seeds' = Put(seeds, <<hs[h].name, hs[h].region>>,
                  [hs[h].status EXCEPT !.status = "ready", !.completedAt = now])
  /\ UNCHANGED <<now, candidates, vms, lrs, sshKeys, inst, upKeys, upFs,
                 capacity, emitted, tk, ticksRun, calls>>

\* ------------------------------------------------------------ environment

\* The clock moves on by one unit.
Advance ==
  /\ now < MaxTime
  /\ now' = now + 1
  /\ UNCHANGED <<candidates, vms, lrs, seeds, sshKeys, inst, upKeys, upFs, capacity,
                 emitted, hs, tk, ticksRun, calls>> /\ Quiet

\* StaleMinutes minutes pass at once while no request and no Reconciler
\* invocation is in flight (both end within seconds); once in a behaviour.
AdvanceHour ==
  /\ now <= MaxTime
  /\ \A h \in Handlers : hs[h].pc = "idle"
  /\ \A k \in Ticks : tk[k].pc = "idle"
  /\ now' = now + StaleUnits
  /\ UNCHANGED <<candidates, vms, lrs, seeds, sshKeys, inst, upKeys, upFs, capacity,
                 emitted, hs, tk, ticksRun, calls>> /\ Quiet

\* An upstream instance is terminated outside the control plane.
UpstreamDies(i) ==
  /\ inst[i] = "active"
  /\ inst' = [inst EXCEPT ![i] = "terminated"]
  /\ UNCHANGED <<now, candidates, vms, lrs, seeds, sshKeys, upKeys, upFs, capacity,
                 emitted, hs, tk, ticksRun, calls>> /\ Quiet

\* A filesystem is deleted upstream, outside the control plane.
UpstreamFsDeleted(key) ==
  /\ key \in upFs
  /\ upFs' = upFs \ {key}
  /\ UNCHANGED <<now, candidates, vms, lrs, seeds, sshKeys, inst, upKeys, capacity,
                 emitted, hs, tk, ticksRun, calls>> /\ Quiet

\* The regions_with_capacity_available the upstream reports.
CapacityOptions == {{}, {<<"t1", "r1">>, <<"t2", "r2">>}}

\* Upstream capacity changes.
CapacityChange(c) ==
  /\ c # capacity
  /\ capacity' = c
  /\ UNCHANGED <<now, candidates, vms, lrs, seeds, sshKeys, inst, upKeys, upFs,
                 emitted, hs, tk, ticksRun, calls>> /\ Quiet

\* ------------------------------------------------------- the specifications

\* The instanceTypes and regions lists a request may carry.
TypeLists == {<<"t1">>, <<"t2", "t1">>}
RegionLists == {<<"r1">>, <<"r2", "r1">>}

\* Preference orders and upstream capacities that tell the orders apart.
MatchTypeLists == {<<"t2">>, <<"t1", "t2">>, <<"t2", "t1">>}
MatchRegionLists == {<<"r1", "r2">>, <<"r2", "r1">>}
MatchCapacities == {{}, {<<"t2", "r2">>}, {<<"t1", "r2">>, <<"t2", "r1">>},
                    Types \X Regions}

\* Two candidates with a quota of one dollar and an admin, added through
\* admin-candidates POST at time 0; nothing launched or requested yet.
InitStores ==
  /\ now = 0
  /\ candidates = [e \in Emails |->
                     IF e = "root" THEN NewCandidate("admin", 0, 0)
                     ELSE NewCandidate("candidate", 1, 0)]
  /\ vms = <<>>
  /\ lrs = <<>>
  /\ seeds = <<>>
  /\ sshKeys = {}
  /\ inst = [i \in InstanceIds |-> "absent"]
  /\ upKeys = {}
  /\ upFs = {}
  /\ capacity = {}
  /\ emitted = [key \in FsKeys |-> 0]
  /\ hs = [h \in Handlers |-> Idle]
  /\ ticksRun = 0
  /\ calls = 0
  /\ last = NoResponse

Init == InitStores /\ tk = [k \in Ticks |-> Idle]

\* The same stores with room for MaxOverlap Reconciler invocations in flight.
OverlapTicks == 1..MaxOverlap
InitOverlap == InitStores /\ tk = [k \in OverlapTicks |-> Idle]

\* The callers of the VM handlers, and the (type, region) a direct launch names.
LaunchCallers == {"a"}
Callers == {"a", "root"}
LaunchChoices == {<<"t1", "r1">>}

\* The VM handlers (direct launch, terminate, listing, candidate removal),
\* Section 1 of the Reconciler and the upstream, with no default filesystem
\* configured and no launch request submitted.
Next ==
  \/ \E h \in Handlers, e \in LaunchCallers, c \in LaunchChoices :
       LaunchGuards(h, e, c[1], c[2])
  \/ \E h \in Handlers : LaunchDo(h)
  \/ \E h \in Handlers, e \in Callers, i \in InstanceIds : TerminateStart(h, e, i)
  \/ \E h \in Handlers : TerminateGet(h)
  \/ \E h \in Handlers : TerminateDo(h)
  \/ \E h \in Handlers, e \in LaunchCallers : ListGuards(h, e)
  \/ \E h \in Handlers, e \in LaunchCallers : RemoveGuards(h, "root", e)
  \/ \E h \in Handlers : RemoveDo(h)
  \/ AdvanceHour
  \/ \E h \in Handlers : ListRefresh(h)
  \/ \E k \in Ticks : TickStart(k)
  \/ \E k \in Ticks : TickPassA(k)
  \/ \E k \in Ticks : TickListQueue(k)
  \/ Advance
  \/ \E i \in InstanceIds : UpstreamDies(i)
  \/ \E c \in CapacityOptions : CapacityChange(c)

Spec == Init /\ [][Next]_vars

\* The launch-request handlers (submit, cancel), candidate removal, the
\* Reconciler and the upstream, with no default filesystem configured.
NextLR ==
  \/ \E h \in Handlers, e \in LaunchCallers, ts \in TypeLists, rs \in RegionLists :
       SubmitGuards(h, e, ts, rs)
  \/ \E h \in Handlers : SubmitDo(h)
  \/ \E h \in Handlers, e \in Callers, i \in RequestIds : CancelGuards(h, e, i)
  \/ \E h \in Handlers : CancelDo(h)
  \/ \E h \in Handlers, e \in LaunchCallers : RemoveGuards(h, "root", e)
  \/ \E h \in Handlers : RemoveDo(h)
  \/ \E k \in Ticks : TickStart(k)
  \/ \E k \in Ticks : TickPassA(k)
  \/ \E k \in Ticks : TickListQueue(k)
  \/ \E k \in Ticks : TickDispatch(k)
  \/ \E k \in Ticks : TickLaunch(k)
  \/ \E k \in Ticks : TickListSeeds(k)
  \/ Advance
  \/ \E c \in CapacityOptions : CapacityChange(c)

SpecLR == Init /\ [][NextLR]_vars

\* The filesystem resolver as launches call it with the default filesystems
\* configured, the loader's seed-complete callback and the Reconciler, while
\* the upstream has no capacity (a submitted request stays queued).
NextSeed ==
  \/ \E h \in Handlers, e \in LaunchCallers : SubmitGuards(h, e, <<"t1">>, <<"r1">>)
  \/ \E h \in Handlers : SubmitDo(h)
  \/ \E h \in Handlers, r \in Regions : ResolveStart(h, r)
  \/ \E h \in Handlers : ResolveCreate(h)
  \/ \E h \in Handlers : ClaimRead(h)
  \/ \E h \in Handlers : ClaimWrite(h)
  \/ \E h \in Handlers, ok \in BOOLEAN, key \in FsKeys : SeedCompleteStart(h, ok, key[1], key[2])
  \/ \E h \in Handlers : SeedCompleteGet(h)
  \/ \E h \in Handlers : SeedCompletePut(h)
  \/ \E k \in Ticks : TickStart(k)
  \/ \E k \in Ticks : TickListQueue(k)
  \/ \E k \in Ticks : TickDispatch(k)
  \/ \E k \in Ticks : TickListSeeds(k)
  \/ \E k \in Ticks : TickCleanSeeds(k)
  \/ Advance
  \/ AdvanceHour

SpecSeed == Init /\ [][NextSeed]_vars

\* Resolver calls alone, within MaxTime units of each other.
NextRace ==
  \/ \E h \in Handlers, r \in Regions : ResolveStart(h, r)
  \/ \E h \in Handlers : ResolveCreate(h)
  \/ \E h \in Handlers : ClaimRead(h)
  \/ \E h \in Handlers : ClaimWrite(h)
  \/ Advance

SpecRace == Init /\ [][NextRace]_vars

\* Removal and re-adding of candidate a by the admin, with a's launches and
\* spend queries.
NextReAdd ==
  \/ \E h \in Handlers : LaunchGuards(h, "a", "t1", "r1")
  \/ \E h \in Handlers : LaunchDo(h)
  \/ \E h \in Handlers : RemoveGuards(h, "root", "a")
  \/ \E h \in Handlers : RemoveDo(h)
  \/ \E h \in Handlers : AddGuards(h, "root", "a", "candidate", 1)
  \/ \E h \in Handlers : AddDo(h)
  \/ \E h \in Handlers : AuthMeStart(h, "a")
  \/ \E h \in Handlers : AuthMeDo(h)
  \/ Advance
  \/ AdvanceHour
  \/ CapacityChange({<<"t1", "r1">>, <<"t2", "r2">>})

SpecReAdd == Init /\ [][NextReAdd]_vars

\* One candidate's queued request and Reconciler invocations that overlap.
NextOverlap ==
  \/ \E h \in Handlers : SubmitGuards(h, "a", <<"t1">>, <<"r1">>)
  \/ \E h \in Handlers : SubmitDo(h)
  \/ \E k \in OverlapTicks : TickStartUpTo(k, MaxOverlap)
  \/ \E k \in OverlapTicks : TickPassA(k)
  \/ \E k \in OverlapTicks : TickListQueue(k)
  \/ \E k \in OverlapTicks : TickDispatch(k)
  \/ \E k \in OverlapTicks : TickLaunch(k)
  \/ \E k \in OverlapTicks : TickListSeeds(k)
  \/ Advance
  \/ CapacityChange({<<"t1", "r1">>, <<"t2", "r2">>})

SpecOverlap == InitOverlap /\ [][NextOverlap]_vars

\* A queued request and two Reconciler invocations in turn, the first of
\* which may end at the launch.
NextRetry ==
  \/ \E h \in Handlers : SubmitGuards(h, "a", <<"t1">>, <<"r1">>)
  \/ \E h \in Handlers : SubmitDo(h)
  \/ \E k \in Ticks : TickStartUpTo(k, MaxOverlap)
  \/ \E k \in Ticks : TickPassA(k)
  \/ \E k \in Ticks : TickListQueue(k)
  \/ \E k \in Ticks : TickDispatch(k)
  \/ \E k \in Ticks : TickLaunch(k)
  \/ \E k \in Ticks : TickAbort(k)
  \/ \E k \in Ticks : TickListSeeds(k)
  \/ Advance
  \/ AdvanceHour
  \/ CapacityChange({<<"t1", "r1">>, <<"t2", "r2">>})

SpecRetry == Init /\ [][NextRetry]_vars

\* A candidate's VM running past the quota and two Reconciler invocations in
\* turn, the upstream terminate call of either of which may fail.
NextKill ==
  \/ \E h \in Handlers : LaunchGuards(h, "a", "t1", "r1")
  \/ \E h \in Handlers : LaunchDo(h)
  \/ \E k \in Ticks : TickStartUpTo(k, MaxOverlap)
  \/ \E k \in Ticks : TickPassA(k)
  \/ \E k \in Ticks : TickListQueue(k)
  \/ Advance
  \/ AdvanceHour
  \/ CapacityChange({<<"t1", "r1">>, <<"t2", "r2">>})

SpecKill == Init /\ [][NextKill]_vars

\* Two candidates' requests, submitted at different times, and the Reconciler.
NextFifo ==
  \/ \E h \in Handlers, e \in {"a", "b"} : SubmitGuards(h, e, <<"t1">>, <<"r1">>)
  \/ \E h \in Handlers : SubmitDo(h)
  \/ \E k \in Ticks : TickStart(k)
  \/ \E k \in Ticks : TickPassA(k)
  \/ \E k \in Ticks : TickListQueue(k)
  \/ \E k \in Ticks : TickDispatch(k)
  \/ \E k \in Ticks : TickLaunch(k)
  \/ \E k \in Ticks : TickListSeeds(k)
  \/ Advance
  \/ \E c \in CapacityOptions : CapacityChange(c)

SpecFifo == Init /\ [][NextFifo]_vars

\* Candidate a's requests with every preference order, under every upstream
\* capacity, on the admission path and on the Reconciler's.
NextMatch ==
  \/ \E h \in Handlers, ts \in MatchTypeLists, rs \in MatchRegionLists :
       SubmitGuards(h, "a", ts, rs)
  \/ \E h \in Handlers : SubmitDo(h)
  \/ \E k \in Ticks : TickStart(k)
  \/ \E k \in Ticks : TickPassA(k)
  \/ \E k \in Ticks : TickListQueue(k)
  \/ \E k \in Ticks : TickDispatch(k)
  \/ \E k \in Ticks : TickLaunch(k)
  \/ \E k \in Ticks : TickListSeeds(k)
  \/ \E c \in MatchCapacities : CapacityChange(c)

SpecMatch == Init /\ [][NextMatch]_vars

\* Candidate a spends part of the quota on a VM, terminates it, and queues a
\* request whose cheapest type is affordable and whose first type is not.
NextQuota ==
  \/ \E h \in Handlers : LaunchGuards(h, "a", "t1", "r1")
  \/ \E h \in Handlers : LaunchDo(h)
  \/ \E h \in Handlers, i \in InstanceIds : TerminateStart(h, "a", i)
  \/ \E h \in Handlers : TerminateGet(h)
  \/ \E h \in Handlers : TerminateDo(h)
  \/ \E h \in Handlers : SubmitGuards(h, "a", <<"t1", "t2">>, <<"r1">>)
  \/ \E h \in Handlers : SubmitDo(h)
  \/ \E k \in Ticks : TickStart(k)
  \/ \E k \in Ticks : TickPassA(k)
  \/ \E k \in Ticks : TickListQueue(k)
  \/ \E k \in Ticks : TickDispatch(k)
  \/ \E k \in Ticks : TickLaunch(k)
  \/ \E k \in Ticks : TickListSeeds(k)
  \/ Advance
  \/ \E c \in CapacityOptions : CapacityChange(c)

SpecQuota == Init /\ [][NextQuota]_vars

\* Resolver calls for region r1 and the loader's callback, over an hour in
\* which the filesystem may disappear upstream.
NextClaim ==
  \/ \E h \in Handlers : ResolveStart(h, "r1")
  \/ \E h \in Handlers : ResolveCreate(h)
  \/ \E h \in Handlers : ClaimRead(h)
  \/ \E h \in Handlers : ClaimWrite(h)
  \/ \E h \in Handlers : SeedCompleteStart(h, TRUE, "shared", "r1")
  \/ \E h \in Handlers : SeedCompleteGet(h)
  \/ \E h \in Handlers : SeedCompletePut(h)
  \/ Advance
  \/ AdvanceHour
  \/ UpstreamFsDeleted(<<"shared", "r1">>)

SpecClaim == Init /\ [][NextClaim]_vars

\* Candidate a runs a VM for up to an hour, terminates it or not, and
\* submits a launch request, as the admin does.
NextSoft ==
  \/ \E h \in Handlers : LaunchGuards(h, "a", "t1", "r1")
  \/ \E h \in Handlers : LaunchDo(h)
  \/ \E h \in Handlers, i \in InstanceIds : TerminateStart(h, "a", i)
  \/ \E h \in Handlers : TerminateGet(h)
  \/ \E h \in Handlers : TerminateDo(h)
  \/ \E h \in Handlers, e \in Callers, ts \in TypeLists : SubmitGuards(h, e, ts, <<"r1">>)
  \/ \E h \in Handlers : SubmitDo(h)
  \/ Advance
  \/ AdvanceHour
  \/ \E c \in CapacityOptions : CapacityChange(c)

SpecSoft == Init /\ [][NextSoft]_vars

\* The callers of SpecAuth: candidate a, whom the admin may remove, the
\* admin, and x, an email with no Candidate record.
AuthCallers == {"a", "root", "x"}

\* Every handler that authenticates a caller, called by the AuthCallers.
NextAuth ==
  \/ \E h \in Handlers, e \in AuthCallers : LaunchGuards(h, e, "t1", "r1")
  \/ \E h \in Handlers : LaunchDo(h)
  \/ \E h \in Handlers, e \in AuthCallers : TerminateStart(h, e, 1)
  \/ \E h \in Handlers : TerminateGet(h)
  \/ \E h \in Handlers : TerminateDo(h)
  \/ \E h \in Handlers, e \in AuthCallers : ListGuards(h, e)
  \/ \E h \in Handlers : ListRefresh(h)
  \/ \E h \in Handlers, e \in AuthCallers : SubmitGuards(h, e, <<"t1">>, <<"r1">>)
  \/ \E h \in Handlers : SubmitDo(h)
  \/ \E h \in Handlers, e \in AuthCallers : CancelGuards(h, e, 1)
  \/ \E h \in Handlers : CancelDo(h)
  \/ \E h \in Handlers, e \in AuthCallers : RemoveGuards(h, e, "a")
  \/ \E h \in Handlers : RemoveDo(h)
  \/ \E h \in Handlers, e \in AuthCallers : AddGuards(h, e, "a", "candidate", 1)
  \/ \E h \in Handlers : AddDo(h)
  \/ \E h \in Handlers, e \in AuthCallers : AuthMeStart(h, e)
  \/ \E h \in Handlers : AuthMeDo(h)
  \/ CapacityChange({<<"t1", "r1">>, <<"t2", "r2">>})

SpecAuth == Init /\ [][NextAuth]_vars

\* ------------------------------------------------------------- the claims

\* C1: every non-admin candidate has, in every reachable state, at most one
\* VM record with terminatedAt == null.
C1_OneActiveVM ==
  \A e \in DOMAIN candidates :
    candidates[e].role = "candidate" => Cardinality(ActiveVMs(vms, e)) <= 1

\* C2: every non-admin candidate has, in every reachable state, at most one
\* launch request with status queued or provisioning.
C2_OnePendingRequest ==
  \A e \in DOMAIN candidates :
    candidates[e].role = "candidate" => Cardinality(PendingRequests(lrs, e)) <= 1

\* C3: once a launch request is stored as fulfilled, cancelled or failed, no
\* step changes any field of its stored record.
C3_TerminalFrozen ==
  [][\A i \in DOMAIN lrs :
       lrs[i].status \in {"fulfilled", "cancelled", "failed"}
         => i \in DOMAIN lrs' /\ lrs'[i] = lrs[i]]_vars

\* C4: every VM record with terminatedAt set has accruedCents equal to
\* ceil(minutes * priceCentsPerHour / 60), minutes being
\* ceil((terminatedAt - launchedAt) / 60 s).
C4_FinalAccrual ==
  \A i \in DOMAIN vms :
    vms[i].terminatedAt # NULL
      => vms[i].accruedCents
           = AccruedCents(vms[i].launchedAt, vms[i].terminatedAt, vms[i].priceCentsPerHour)

\* C5: when Section 1 of a Reconciler invocation completes on stable inputs
\* (no handler in flight, the stores and the upstream as the invocation listed
\* them), every candidate who had an active VM in the listing has
\* spentCents == computeSpentCents(email, spentResetAt) at that time.
C5_SpentInSync ==
  [][\A k \in Ticks :
       (/\ tk[k].pc = "passA"
        /\ tk'[k].pc = "listq"
        /\ \A h \in Handlers : hs[h].pc = "idle"
        /\ tk[k].tvms = vms
        /\ tk[k].live = inst)
       => \A i \in TickActive(tk[k].tvms) :
            LET e == tk[k].tvms[i].candidateEmail IN
            candidates'[e].spentCents
              = ComputeSpentCents(vms', now', e, candidates'[e].spentResetAt)]_vars

\* C6: a SeedStatus that is ready stays stored and ready, whatever step is
\* taken (the seed-status store holds one record per (filesystemName, region)
\* by its key).
C6_ReadyStays ==
  [][\A key \in DOMAIN seeds :
       seeds[key].status = "ready"
         => key \in DOMAIN seeds' /\ seeds'[key].status = "ready"]_vars

\* C7: POST /api/vms/terminate whose getVM returns a record with terminatedAt
\* set ends with an error response -- 400 for the owner or an admin, 403 for
\* another candidate -- and leaves the VM records, the candidate records, the
\* upstream instances and the SSH keys unchanged.
C7_TerminateIdempotent ==
  [][\A h \in Handlers :
       (/\ hs[h].pc = "termget"
        /\ hs'[h] # hs[h]
        /\ hs[h].id \in DOMAIN vms
        /\ vms[hs[h].id].terminatedAt # NULL)
       => /\ hs'[h] = Idle
          /\ last' = [op |-> "terminate",
                      code |-> IF hs[h].role = "admin"
                                    \/ vms[hs[h].id].candidateEmail = hs[h].email
                                 THEN 400 ELSE 403]
          /\ vms' = vms
          /\ candidates' = candidates
          /\ inst' = inst
          /\ upKeys' = upKeys
          /\ sshKeys' = sshKeys]_vars

\* C7: a terminate call has just been answered 400 for a VM stored as terminated.
C7_Witness ==
  /\ last = [op |-> "terminate", code |-> 400]
  /\ \E i \in DOMAIN vms : vms[i].terminatedAt # NULL

C9_SeedCompleteIdempotent ==
  [][\A h \in Handlers :
       LET key == <<hs[h].name, hs[h].region>> IN
       /\ (/\ hs[h].pc = "seedget"
           /\ hs'[h] # hs[h]
           /\ key \in DOMAIN seeds
           /\ seeds[key].status = "ready")
          => /\ hs'[h] = Idle
             /\ last' = [op |-> "seedcomplete", code |-> 200]
             /\ seeds' = seeds
       /\ (/\ hs[h].pc = "seedget"
           /\ hs'[h] # hs[h]
           /\ key \in DOMAIN seeds
           /\ seeds[key].status # "ready")
          => hs'[h].pc = "seedput" /\ seeds' = seeds
       /\ (hs[h].pc = "seedput" /\ hs'[h] # hs[h])
          => /\ hs'[h] = Idle
             /\ last' = [op |-> "seedcomplete", code |-> 200]
             /\ key \in DOMAIN seeds'
             /\ seeds'[key].status = "ready"]_vars

\* C9: a seed-complete call has just been answered 200 while every stored
\* SeedStatus was already ready, completed at an earlier time.
C9_Witness ==
  /\ last = [op |-> "seedcomplete", code |-> 200]
  /\ DOMAIN seeds # {}
  /\ \A key \in DOMAIN seeds :
       /\ seeds[key].status = "ready"
       /\ seeds[key].completedAt # NULL
       /\ seeds[key].completedAt < now

\* C10: every change of a launch request's stored status is one of
\* queued->provisioning, provisioning->fulfilled, provisioning->queued,
\* queued->cancelled, queued->failed, and a request is created as queued or
\* as fulfilled.
C10_StatusMoves ==
  [][\A i \in DOMAIN lrs' :
       IF i \in DOMAIN lrs
         THEN \/ lrs'[i].status = lrs[i].status
              \/ <<lrs[i].status, lrs'[i].status>>
                   \in {<<"queued", "provisioning">>, <<"provisioning", "fulfilled">>,
                        <<"provisioning", "queued">>, <<"queued", "cancelled">>,
                        <<"queued", "failed">>}
         ELSE lrs'[i].status \in {"queued", "fulfilled"}]_vars

\* C11: a cancel call by the owner or an admin for a stored request whose
\* status is not queued returns 400 and changes no record; a cancel call
\* returns 200 only after reading the request as queued, and then stores it
\* with status cancelled and cancelledAt set.
C11_CancelOnlyQueued ==
  [][/\ \A h \in Handlers, e \in Emails, id \in RequestIds :
          ((/\ CancelGuards(h, e, id)
            /\ AuthOK(candidates, e)
            /\ id \in DOMAIN lrs
            /\ (candidates[e].role = "admin" \/ lrs[id].candidateEmail = e)
            /\ lrs[id].status # "queued")
           => (/\ last' = [op |-> "cancel", code |-> 400]
               /\ hs' = hs
               /\ lrs' = lrs
               /\ vms' = vms))
     /\ \A h \in Handlers :
          ((hs[h].pc = "cancel" /\ hs'[h] # hs[h])
           => (/\ hs[h].lr.status = "queued"
               /\ last' = [op |-> "cancel", code |-> 200]
               /\ lrs'[hs[h].id].status = "cancelled"
               /\ lrs'[hs[h].id].cancelledAt = now))
     /\ ((last' = [op |-> "cancel", code |-> 200])
           => (\E h \in Handlers : hs[h].pc = "cancel" /\ hs'[h] = Idle))]_vars

\* C11: a cancel call has just been answered 400 while a stored request is
\* not queued.
C11_Witness ==
  /\ last = [op |-> "cancel", code |-> 400]
  /\ \E i \in DOMAIN lrs : lrs[i].status # "queued"

\* C12: a launch request stored as cancelled is never afterwards handed to
\* the upstream launch: no step stores it as provisioning or fulfilled, and
\* its fulfilledInstanceId stays null.
C12_CancelledNeverLaunched ==
  [][\A i \in DOMAIN lrs :
       lrs[i].status = "cancelled"
         => /\ i \in DOMAIN lrs'
            /\ lrs'[i].status \notin {"provisioning", "fulfilled"}
            /\ lrs'[i].fulfilledInstanceId = NULL]_vars

\* C13: a submit call that is answered 201, or that launched an upstream
\* instance, is answered 201 and has stored a new launch request with
\* status fulfilled whose fulfilledInstanceId is an instance the upstream has
\* just launched, and a VM record for that instance and the caller with
\* status launching, accruedCents 0, a type and a region of the request, the
\* upstream price of that type, and sshKeyName "web-" followed by the email
\* with every character outside [a-zA-Z0-9] replaced by "-".
C13_ImmediateFulfil ==
  [][\A h \in Handlers :
       (hs[h].pc = "submit" /\ hs'[h] # hs[h]
          /\ (last' = [op |-> "submit", code |-> 201] \/ inst' # inst))
       => \E i \in (DOMAIN lrs') \ (DOMAIN lrs) :
            LET v == lrs'[i].fulfilledInstanceId
                e == hs[h].email
            IN /\ lrs'[i].status = "fulfilled"
               /\ lrs'[i].candidateEmail = e
               /\ last' = [op |-> "submit", code |-> 201]
               /\ v \in InstanceIds
               /\ inst[v] = "absent"
               /\ inst'[v] = "active"
               /\ v \notin DOMAIN vms
               /\ v \in DOMAIN vms'
               /\ vms'[v].candidateEmail = e
               /\ vms'[v].status = "launching"
               /\ vms'[v].accruedCents = 0
               /\ vms'[v].terminatedAt = NULL
               /\ vms'[v].launchedAt = now
               /\ \E x \in DOMAIN hs[h].types : hs[h].types[x] = vms'[v].instanceType
               /\ \E x \in DOMAIN hs[h].regions : hs[h].regions[x] = vms'[v].region
               /\ vms'[v].priceCentsPerHour = PriceOf[vms'[v].instanceType]
               /\ Len(vms'[v].sshKeyName) = 4 + Len(Address[e])
               /\ SubSeq(vms'[v].sshKeyName, 1, 4) = <<"w", "e", "b", "-">>
               /\ \A x \in DOMAIN Address[e] :
                    vms'[v].sshKeyName[4 + x]
                      = IF Address[e][x] \in Alnum THEN Address[e][x] ELSE "-"]_vars

\* C13: a submit call has just been answered 201 and the fulfilled request
\* and its VM are stored.
C13_Witness ==
  /\ last = [op |-> "submit", code |-> 201]
  /\ \E i \in DOMAIN lrs :
       /\ lrs[i].status = "fulfilled"
       /\ lrs[i].fulfilledInstanceId \in DOMAIN vms
       /\ vms[lrs[i].fulfilledInstanceId].status = "launching"

\* C14: one Reconciler tick fulfils every eligible queued request.  The tick
\* that lists the queue with the instance types fetched takes up every request
\* stored as queued; when it reaches a request that is still stored as queued,
\* whose candidate is active, has no active VM and has quota for the matched
\* type, and for which the fetched types show capacity, it writes the request
\* as provisioning and goes on to the launch; and when the upstream launch of
\* that request succeeds, the same tick stores a new VM record of the
\* candidate and the request as fulfilled, pointing at that VM.
C14_TickFulfils ==
  [][\A k \in Ticks :
       /\ (tk[k].pc = "listq" /\ tk'[k].pc = "dispatch")
            => {tk'[k].tq[n] : n \in DOMAIN tk'[k].tq} = QueuedIds(lrs)
       /\ (tk[k].pc = "dispatch" /\ tk'[k] # tk[k])
            => LET id == Head(tk[k].tq)
                   e == lrs[id].candidateEmail
                   m == FirstMatch(lrs[id].instanceTypes, lrs[id].regions, tk[k].cap)
               IN (/\ lrs[id].status = "queued"
                   /\ e \in DOMAIN candidates
                   /\ candidates[e].deactivatedAt = NULL
                   /\ ActiveVMs(vms, e) = {}
                   /\ m # <<>>
                   /\ ~QuotaShort(candidates, vms, now, e, PriceOf[m[1]]))
                  => (/\ lrs'[id].status = "provisioning"
                      /\ tk'[k].pc = "launch"
                      /\ tk'[k].tq = tk[k].tq
                      /\ tk'[k].match = m)
       /\ (tk[k].pc = "launch" /\ tk'[k] # tk[k] /\ inst' # inst)
            => LET id == Head(tk[k].tq)
               IN \E v \in (DOMAIN vms') \ (DOMAIN vms) :
                    /\ lrs'[id].status = "fulfilled"
                    /\ lrs'[id].fulfilledInstanceId = v
                    /\ lrs'[id].fulfilledAt = now
                    /\ vms'[v].candidateEmail = lrs[id].candidateEmail
                    /\ vms'[v].terminatedAt = NULL
                    /\ vms'[v].instanceType = tk[k].match[1]
                    /\ vms'[v].region = tk[k].match[2]
                    /\ inst[v] # "active" /\ inst'[v] = "active"
       /\ (tk[k].pc \in {"dispatch", "launch"} /\ tk'[k] # tk[k] /\ tk'[k].pc = "dispatch")
            => tk'[k].tq = Tail(tk[k].tq)]_vars

\* C14 witness: a request submitted earlier has been fulfilled by the tick
\* (the submit call itself fulfils only at the time of creation), and points
\* at a stored VM record that is not terminated.
C14_Witness ==
  \E i \in DOMAIN lrs :
    /\ lrs[i].status = "fulfilled"
    /\ lrs[i].fulfilledAt > lrs[i].createdAt
    /\ lrs[i].fulfilledInstanceId \in DOMAIN vms
    /\ vms[lrs[i].fulfilledInstanceId].terminatedAt = NULL

C16_ReAddResetsSpend ==
  [][\A h \in Handlers :
       /\ (hs[h].pc = "add" /\ hs'[h] # hs[h]
              /\ hs[h].existing # <<>> /\ hs[h].existing[1].deactivatedAt # NULL)
            => LET e == hs[h].email
               IN /\ candidates'[e].deactivatedAt = NULL
                  /\ candidates'[e].spentResetAt = now
                  /\ candidates'[e].spentCents = 0
                  /\ vms' = vms
                  /\ ComputeSpentCents(vms', now, e, candidates'[e].spentResetAt) = 0
                  /\ last' = [op |-> "add", code |-> 200]
       /\ (hs[h].pc = "me" /\ hs'[h] # hs[h])
            => LET e == hs[h].email
                   r == hs[h].candidate.spentResetAt
               IN /\ last'.op = "me" /\ last'.code = 200
                  /\ (\A i \in VMsByEmail(vms, e) : vms[i].launchedAt < r)
                       => last'.spentCents = 0]_vars

\* C16 witness: auth-me has answered spentCents 0 for a re-added candidate
\* whose VM record from before the removal, with its accrued cost, is still
\* stored.
C16_Witness ==
  /\ last.op = "me" /\ last.code = 200 /\ last.spentCents = 0
  /\ candidates[last.email].deactivatedAt = NULL
  /\ candidates[last.email].spentResetAt > 0
  /\ \E i \in VMsByEmail(vms, last.email) :
       /\ vms[i].terminationReason = "account_removed"
       /\ vms[i].accruedCents > 0
       /\ vms[i].launchedAt < candidates[last.email].spentResetAt

C18_SubmitRejected ==
  [][\A h \in Handlers, e \in Emails, types \in TypeLists, regions \in RegionLists :
       (/\ SubmitGuards(h, e, types, regions)
        /\ e \in DOMAIN candidates
        /\ candidates[e].deactivatedAt = NULL
        /\ candidates[e].role # "admin"
        /\ \/ \E i \in DOMAIN vms :
                vms[i].candidateEmail = e /\ vms[i].terminatedAt = NULL
           \/ \E i \in DOMAIN lrs :
                lrs[i].candidateEmail = e /\ lrs[i].status \in {"queued", "provisioning"})
       => (/\ last' = [op |-> "submit", code |-> 400]
           /\ hs' = hs
           /\ lrs' = lrs /\ vms' = vms /\ sshKeys' = sshKeys
           /\ inst' = inst /\ upKeys' = upKeys)]_vars

\* C18 witness: a submit call has just been answered 400 while the store holds
\* a request in provisioning and no submit call is in flight.
C18_Witness ==
  /\ last = [op |-> "submit", code |-> 400]
  /\ \A h \in Handlers : hs[h].pc # "submit"
  /\ \E i \in DOMAIN lrs : lrs[i].status = "provisioning"
  /\ \A i \in DOMAIN vms : vms[i].terminatedAt # NULL

\* C19: a queued request is dispatched at most once, also when Reconciler
\* invocations overlap: an invocation launches an upstream instance only for
\* a request that has no instance yet, so no request gets two launches or two
\* VM records.
C19_DispatchedOnce ==
  [][\A k \in OverlapTicks :
       (tk[k].pc = "launch" /\ tk'[k] # tk[k] /\ inst' # inst)
       => lrs[Head(tk[k].tq)].fulfilledInstanceId = NULL]_vars

\* C20: a request left in provisioning is a retry candidate for a later tick:
\* whenever an invocation is about to list the queue and a request has been
\* in provisioning for more than twice the tick period, the invocation can
\* take that request into the queue it processes (and does so when its
\* getInstanceTypes call succeeds), so no request stays provisioning forever.
C20_ProvisioningRetried ==
  \A k \in Ticks : \A i \in DOMAIN lrs :
    (/\ tk[k].pc = "listq"
     /\ lrs[i].status = "provisioning"
     /\ now - lrs[i].lastAttemptAt > 2 * TickPeriodMinutes * UnitsPerMinute)
    => ENABLED (/\ TickListQueue(k)
                /\ tk'[k].pc = "dispatch"
                /\ \E n \in DOMAIN tk'[k].tq : tk'[k].tq[n] = i)

\* C21: an instance the Reconciler decided to kill and that still runs
\* upstream, because the terminate call failed, is retried by a later tick: an
\* invocation that can start takes the VM into Section 1 again, and an
\* invocation in Section 1 can terminate the instance upstream.
C21_KillRetried ==
  \A k \in Ticks : \A i \in DOMAIN vms :
    (/\ vms[i].terminationReason \in {"quota_exceeded", "account_removed"}
     /\ inst[i] = "active")
    => /\ (tk[k].pc = "idle" /\ ticksRun < MaxOverlap)
            => ENABLED (/\ TickStartUpTo(k, MaxOverlap)
                        /\ tk'[k].pc = "passA"
                        /\ i \in TickActive(tk'[k].tvms))
       /\ (tk[k].pc = "passA")
            => ENABLED (TickPassA(k) /\ inst'[i] = "terminated")

\* C22: a VM record with terminatedAt set is terminal: no step removes the
\* record, clears or changes its terminatedAt, or changes its
\* terminationReason.
C22_TerminatedStays ==
  [][\A i \in DOMAIN vms :
       vms[i].terminatedAt # NULL
       => /\ i \in DOMAIN vms'
          /\ vms'[i].terminatedAt = vms[i].terminatedAt
          /\ vms'[i].terminationReason = vms[i].terminationReason]_vars

\* C23: a Reconciler invocation is never aborted by a failure: the step that
\* starts it (listVMs and listInstances) leaves it in flight, on its way to
\* Section 2 and Section 3, and so does the queue listing (with
\* getInstanceTypes) when a request is queued.
C23_TickNeverAborts ==
  [][\A k \in Ticks :
       /\ (tk[k].pc = "idle" /\ ticksRun' # ticksRun) => tk'[k].pc # "idle"
       /\ (tk[k].pc = "listq" /\ tk'[k] # tk[k]
              /\ \E i \in DOMAIN lrs : lrs[i].status = "queued")
            => tk'[k].pc # "idle"]_vars

\* C24: every Reconciler invocation that ends with its "ok" response has done
\* Section 3: no seed status that is seeding with a claimedAt older than 60
\* minutes is left in the store, and it has deleted nothing else.
C24_TickCleansSeeds ==
  [][\A k \in Ticks :
       (tk[k].pc # "idle" /\ tk'[k].pc = "idle"
          /\ last' = [op |-> "tick", code |-> 200])
       => /\ \A key \in DOMAIN seeds' :
               ~(/\ seeds'[key].status = "seeding"
                 /\ seeds'[key].claimedAt # NULL
                 /\ now - seeds'[key].claimedAt > StaleMinutes * UnitsPerMinute)
          /\ \A key \in DOMAIN seeds :
               (\/ seeds[key].status = "ready"
                \/ now - seeds[key].claimedAt <= StaleMinutes * UnitsPerMinute)
               => (key \in DOMAIN seeds' /\ seeds'[key] = seeds[key])]_vars

\* C25: within a Reconciler invocation the queued requests are considered in
\* non-decreasing createdAt order: the requests still to be considered are
\* never older than the one being considered, the invocation takes them one
\* by one from the front, and it writes only the request it is considering.
C25_FifoDispatch ==
  /\ [](\A k \in Ticks :
          tk[k].pc \in {"dispatch", "launch"}
          => \A m, n \in DOMAIN tk[k].tq :
               m < n => tk[k].tlrs[tk[k].tq[m]].createdAt
                          <= tk[k].tlrs[tk[k].tq[n]].createdAt)
  /\ [][\A k \in Ticks :
          /\ (tk[k].pc = "listq" /\ tk'[k].pc = "dispatch")
               => /\ {tk'[k].tq[n] : n \in DOMAIN tk'[k].tq}
                       = {i \in DOMAIN lrs : lrs[i].status = "queued"}
                  /\ tk'[k].tlrs = lrs
          /\ (tk[k].pc \in {"dispatch", "launch"} /\ tk'[k] # tk[k])
               => /\ \A i \in DOMAIN lrs : i # Head(tk[k].tq) => lrs'[i] = lrs[i]
                  /\ tk'[k].pc = "launch" => tk'[k].tq = tk[k].tq
                  /\ tk'[k].pc = "dispatch" => tk'[k].tq = Tail(tk[k].tq)
                  /\ tk'[k].pc \in {"launch", "dispatch", "seeds"}]_vars

\* C25 witness: an invocation has a younger request left to consider after an
\* older one that it has already launched.
C25_Witness ==
  \E k \in Ticks :
    /\ tk[k].pc = "dispatch"
    /\ Len(tk[k].tq) = 1
    /\ \E i \in DOMAIN lrs :
         /\ lrs[i].status = "fulfilled"
         /\ lrs[i].fulfilledAt > lrs[i].createdAt
         /\ lrs[i].createdAt < tk[k].tlrs[Head(tk[k].tq)].createdAt

\* C26: admission and dispatch select the same (type, region) for the same
\* request and capacity.  What the submit call selects on the capacity it
\* reads, and what the Reconciler selects for a request on the capacity it
\* fetched, is the pair <<types[i], regions[j]>> with capacity that has the
\* least i and, for that i, the least j, and nothing when no pair has
\* capacity; the VM record carries that type, that region and the price of
\* that type.
C26_SameSelection ==
  [][LET First(types, regions, cap, m) ==
           LET ok == {p \in (DOMAIN types) \X (DOMAIN regions) :
                        <<types[p[1]], regions[p[2]]>> \in cap}
           IN IF ok = {} THEN m = <<>>
              ELSE \E p \in ok :
                     /\ \A q \in ok : p[1] < q[1] \/ (p[1] = q[1] /\ p[2] <= q[2])
                     /\ m = <<types[p[1]], regions[p[2]]>>
     IN /\ \A h \in Handlers :
             (hs[h].pc = "idle" /\ hs'[h].pc = "submit")
             => First(hs'[h].types, hs'[h].regions, capacity, hs'[h].match)
        /\ \A k \in Ticks :
             /\ (tk[k].pc = "dispatch" /\ tk'[k] # tk[k])
                  => LET lr == tk[k].tlrs[Head(tk[k].tq)]
                     IN IF tk'[k].pc = "launch"
                          THEN First(lr.instanceTypes, lr.regions, tk[k].cap, tk'[k].match)
                          ELSE (/\ lrs'[Head(tk[k].tq)].status = "queued"
                                /\ lrs'[Head(tk[k].tq)] # lrs[Head(tk[k].tq)])
                               => First(lr.instanceTypes, lr.regions, tk[k].cap, <<>>)
             /\ (tk[k].pc = "launch" /\ tk'[k] # tk[k] /\ inst' # inst)
                  => \E v \in (DOMAIN vms') \ (DOMAIN vms) :
                       /\ vms'[v].instanceType = tk[k].match[1]
                       /\ vms'[v].region = tk[k].match[2]
                       /\ vms'[v].priceCentsPerHour = PriceOf[tk[k].match[1]]
        /\ \A h \in Handlers :
             (hs[h].pc = "submit" /\ hs'[h] # hs[h] /\ inst' # inst)
             => \E v \in (DOMAIN vms') \ (DOMAIN vms) :
                  /\ vms'[v].instanceType = hs[h].match[1]
                  /\ vms'[v].region = hs[h].match[2]
                  /\ vms'[v].priceCentsPerHour = PriceOf[hs[h].match[1]]]_vars

\* C26 witness: the Reconciler is about to launch the second-preference type
\* in the second-preference region of a request, on a capacity that also has
\* the first-preference region for that type's rival order.
C26_Witness ==
  \E k \in Ticks :
    /\ tk[k].pc = "launch"
    /\ tk[k].lr.instanceTypes = <<"t1", "t2">>
    /\ tk[k].lr.regions = <<"r1", "r2">>
    /\ tk[k].cap = {<<"t1", "r2">>, <<"t2", "r1">>}
    /\ tk[k].match = <<"t1", "r2">>

\* C27: when the upstream launch of the Reconciler fails with a transient
\* error the request is written back as queued, and when it fails with a
\* permanent error the request is written as failed.
C27_LaunchFailureKinds ==
  [][\A k \in Ticks :
       /\ TickLaunchWith(k, "fail")
            => lrs'[Head(tk[k].tq)].status = "queued"
       /\ TickLaunchWith(k, "permanent")
            => lrs'[Head(tk[k].tq)].status = "failed"]_vars

\* C28: when the Reconciler reaches a request whose candidate record is
\* missing or deactivated, it stores the request as cancelled with
\* failureReason candidate_deactivated and cancelledAt set to the time of the
\* step, launches nothing and goes on to the next request.
C28_DeactivatedCancelled ==
  [][\A k \in Ticks :
       (/\ tk[k].pc = "dispatch" /\ tk'[k] # tk[k]
        /\ LET e == tk[k].tlrs[Head(tk[k].tq)].candidateEmail
           IN e \notin DOMAIN candidates \/ candidates[e].deactivatedAt # NULL)
       => LET id == Head(tk[k].tq)
          IN /\ lrs'[id].status = "cancelled"
             /\ lrs'[id].failureReason = "candidate_deactivated"
             /\ lrs'[id].cancelledAt = now
             /\ lrs'[id].fulfilledInstanceId = NULL
             /\ tk'[k].pc # "launch"
             /\ inst' = inst /\ vms' = vms /\ upKeys' = upKeys]_vars

\* C28 witness: a request of a deactivated candidate, queued after the
\* removal had cancelled the candidate's requests, has been cancelled by the
\* Reconciler later on.
C28_Witness ==
  \E i \in DOMAIN lrs :
    /\ lrs[i].status = "cancelled"
    /\ lrs[i].failureReason = "candidate_deactivated"
    /\ candidates[lrs[i].candidateEmail].deactivatedAt # NULL
    /\ lrs[i].cancelledAt > candidates[lrs[i].candidateEmail].deactivatedAt
    /\ \E k \in Ticks : tk[k].pc = "seeds"

\* C29: when the Reconciler reaches a request of a non-admin candidate that
\* is active and has a VM record that is not terminated, it skips the
\* request: no launch request record, VM record or upstream state changes,
\* and the invocation goes on to the next request.
C29_ActiveVmSkips ==
  [][\A k \in Ticks :
       (/\ tk[k].pc = "dispatch" /\ tk'[k] # tk[k]
        /\ LET e == tk[k].tlrs[Head(tk[k].tq)].candidateEmail
           IN /\ e \in DOMAIN candidates
              /\ candidates[e].deactivatedAt = NULL
              /\ candidates[e].role # "admin"
              /\ \E v \in DOMAIN vms :
                   vms[v].candidateEmail = e /\ vms[v].terminatedAt = NULL)
       => /\ lrs' = lrs
          /\ vms' = vms /\ inst' = inst /\ upKeys' = upKeys /\ sshKeys' = sshKeys
          /\ tk'[k].pc \in {"dispatch", "seeds"}
          /\ tk'[k].pc = "dispatch" => tk'[k].tq = Tail(tk[k].tq)]_vars

\* C29 witness: an invocation has gone through its queue, has fulfilled one
\* request of a candidate and has left another request of that candidate,
\* which is older than the launch, queued and unattempted.
C29_Witness ==
  /\ \E k \in Ticks : tk[k].pc = "seeds"
  /\ \E i, j \in DOMAIN lrs :
       /\ i # j
       /\ lrs[i].candidateEmail = lrs[j].candidateEmail
       /\ lrs[i].status = "fulfilled" /\ lrs[i].fulfilledAt > lrs[i].createdAt
       /\ lrs[i].fulfilledInstanceId \in DOMAIN vms
       /\ vms[lrs[i].fulfilledInstanceId].terminatedAt = NULL
       /\ lrs[j].status = "queued" /\ lrs[j].attempts = 0
       /\ lrs[j].createdAt < lrs[i].fulfilledAt

\* C30: when the Reconciler reaches a request of an active non-admin
\* candidate without an active VM, finds a (type, region) with capacity, and
\* quotaDollars * 100 minus computeSpentCents is below the price of that
\* type, it stores the request as failed with failureReason
\* insufficient_quota, launches nothing and goes on to the next request.
C30_QuotaFails ==
  [][\A k \in Ticks :
       (/\ tk[k].pc = "dispatch" /\ tk'[k] # tk[k]
        /\ LET lr == tk[k].tlrs[Head(tk[k].tq)]
               e == lr.candidateEmail
               m == FirstMatch(lr.instanceTypes, lr.regions, tk[k].cap)
           IN /\ e \in DOMAIN candidates
              /\ candidates[e].deactivatedAt = NULL
              /\ candidates[e].role # "admin"
              /\ \A v \in DOMAIN vms :
                   vms[v].candidateEmail = e => vms[v].terminatedAt # NULL
              /\ m # <<>>
              /\ candidates[e].quotaDollars * 100
                   - ComputeSpentCents(vms, now, e, candidates[e].spentResetAt)
                   < PriceOf[m[1]])
       => LET id == Head(tk[k].tq)
          IN /\ lrs'[id].status = "failed"
             /\ lrs'[id].failureReason = "insufficient_quota"
             /\ lrs'[id].fulfilledInstanceId = NULL
             /\ tk'[k].pc # "launch"
             /\ inst' = inst /\ vms' = vms /\ upKeys' = upKeys]_vars

\* C30 witness: a request has been stored as failed for insufficient_quota
\* while its candidate, whose earlier VM cost part of the quota, still has
\* enough left for the cheapest type of the request.
C30_Witness ==
  \E i \in DOMAIN lrs :
    /\ lrs[i].status = "failed"
    /\ lrs[i].failureReason = "insufficient_quota"
    /\ \E v \in DOMAIN vms :
         /\ vms[v].candidateEmail = lrs[i].candidateEmail
         /\ vms[v].terminatedAt # NULL
         /\ vms[v].accruedCents > 0
    /\ inst = [v \in InstanceIds |-> IF v \in DOMAIN vms THEN inst[v] ELSE "absent"]
    /\ \E k \in Ticks : tk[k].pc = "seeds"

\* C31: in Section 1 of the Reconciler, every VM of the listing with
\* terminatedAt null whose upstream instance is missing from the upstream
\* listing or reports terminated is stored with status terminated,
\* terminationReason terminated_externally, terminatedAt now and the final
\* accruedCents, and is not put in the batch of the upstream terminate call.
C31_ExternalTermination ==
  [][\A k \in Ticks :
       (tk[k].pc = "passA" /\ tk'[k] # tk[k])
       => \A i \in DOMAIN tk[k].tvms :
            (/\ tk[k].tvms[i].terminatedAt = NULL
             /\ tk[k].live[i] \in {"absent", "terminated"})
            => /\ vms'[i].status = "terminated"
               /\ vms'[i].terminationReason = "terminated_externally"
               /\ vms'[i].terminatedAt = now
               /\ vms'[i].accruedCents =
                    Ceil(Ceil(now - tk[k].tvms[i].launchedAt, UnitsPerMinute)
                           * tk[k].tvms[i].priceCentsPerHour, 60)
               /\ i \notin ToTerminate(candidates, tk[k].tvms, tk[k].live, now)
               /\ inst'[i] = inst[i]]_vars

\* C31 witness: the Reconciler has just stored a VM that ran for some time,
\* and died upstream, as terminated_externally with a cost.
C31_Witness ==
  \E i \in DOMAIN vms :
    /\ vms[i].terminationReason = "terminated_externally"
    /\ vms[i].status = "terminated"
    /\ vms[i].terminatedAt = now
    /\ vms[i].accruedCents > 0
    /\ inst[i] = "terminated"
    /\ \E k \in Ticks : tk[k].pc = "listq"

\* C32: in Section 1 of the Reconciler, every active VM of a candidate who is
\* missing or deactivated is stored as terminated with terminationReason
\* account_removed and its instance is terminated upstream by that tick: an
\* instance launched for a candidate removed meanwhile does not survive it.
C32_OrphanTerminated ==
  [][\A k \in Ticks :
       (tk[k].pc = "passA" /\ tk'[k] # tk[k])
       => \A i \in DOMAIN tk[k].tvms :
            (/\ tk[k].tvms[i].terminatedAt = NULL
             /\ tk[k].live[i] = "active"
             /\ \/ tk[k].tvms[i].candidateEmail \notin DOMAIN candidates
                \/ candidates[tk[k].tvms[i].candidateEmail].deactivatedAt # NULL)
            => /\ vms'[i].terminatedAt # NULL
               /\ vms'[i].terminationReason = "account_removed"
               /\ inst'[i] = "terminated"]_vars

\* C33: Section 1 of the Reconciler leaves no SSH key, upstream or local, to
\* a candidate whose VM it has terminated and who has no active VM left, and
\* leaves the key of a candidate who still has an active VM in place.
C33_KeysFollowVMs ==
  [][\A k \in Ticks :
       (tk[k].pc = "passA" /\ tk'[k] # tk[k])
       => \A e \in Emails :
            /\ (/\ \E i \in DOMAIN tk[k].tvms :
                     /\ tk[k].tvms[i].candidateEmail = e
                     /\ tk[k].tvms[i].terminatedAt = NULL
                     /\ vms'[i].terminatedAt # NULL
                /\ \A i \in DOMAIN vms' :
                     vms'[i].candidateEmail = e => vms'[i].terminatedAt # NULL)
               => (KeyName(e) \notin upKeys' /\ e \notin sshKeys')
            /\ (\E i \in DOMAIN vms' :
                   vms'[i].candidateEmail = e /\ vms'[i].terminatedAt = NULL)
               => /\ KeyName(e) \in upKeys => KeyName(e) \in upKeys'
                  /\ e \in sshKeys => e \in sshKeys']_vars

C35_AttachedReadOnly ==
  [][/\ (hs' = hs /\ calls' = calls + 1 /\ last'.op = "resolve")
        => \E r \in Regions :
             \A i \in DOMAIN DefaultFilesystems :
               /\ <<DefaultFilesystems[i], r>> \in upFs
               /\ \E j \in DOMAIN last'.fileSystemNames :
                    last'.fileSystemNames[j] = DefaultFilesystems[i]
               /\ \E j \in DOMAIN last'.readonlyMounts :
                    last'.readonlyMounts[j] = <<"/lambda/nfs/", DefaultFilesystems[i]>>
     /\ \A h \in Handlers :
          LET res == IF hs'[h].pc = "idle" THEN last' ELSE hs'[h]
              name == Head(hs[h].todo)
          IN (\/ hs[h].pc = "claim" /\ hs'[h].pc \notin {"claim", "claimput"}
              \/ hs[h].pc = "claimput" /\ hs'[h].pc # "claimput")
             => /\ \E j \in DOMAIN res.fileSystemNames : res.fileSystemNames[j] = name
                /\ \E j \in DOMAIN res.readonlyMounts :
                     res.readonlyMounts[j] = <<"/lambda/nfs/", name>>]_vars

\* C35 witness: a call that created the filesystem and won the seed claim
\* has returned it attached and remounted read-only, with its loader, while
\* another call that created it as well is about to read the claim.
C35_Witness ==
  /\ last.op = "resolve"
  /\ last.loaderVMs = <<"shared">>
  /\ last.fileSystemNames = <<"shared">>
  /\ last.readonlyMounts = <<ReadonlyMount("shared")>>
  /\ \E h \in Handlers : hs[h].pc = "claim"

\* C36 as stated: a submit call by an authenticated non-admin whose
\* quotaDollars * 100 minus computeSpentCents is below the price of the
\* cheapest selected type is answered 403 and writes nothing.
C36_QuotaShortIs403 ==
  [][\A h \in Handlers, e \in Emails, types \in TypeLists :
       (/\ SubmitGuards(h, e, types, <<"r1">>)
        /\ e \in DOMAIN candidates
        /\ candidates[e].deactivatedAt = NULL
        /\ candidates[e].role # "admin"
        /\ candidates[e].quotaDollars * 100
             - ComputeSpentCents(vms, now, e, candidates[e].spentResetAt)
             < CheapestPrice(types))
       => (/\ last' = [op |-> "submit", code |-> 403]
           /\ hs' = hs /\ lrs' = lrs /\ vms' = vms)]_vars

\* C36: a submit call by an authenticated non-admin who has no active VM and
\* no queued or provisioning request, and whose quotaDollars * 100 minus
\* computeSpentCents is below the price of the cheapest selected type, is
\* answered 403 at the guards: it goes no further and writes no launch
\* request, VM or SSH key record and makes no upstream call.
C36_SoftQuotaRejects ==
  [][\A h \in Handlers, e \in Emails, types \in TypeLists :
       (/\ SubmitGuards(h, e, types, <<"r1">>)
        /\ e \in DOMAIN candidates
        /\ candidates[e].deactivatedAt = NULL
        /\ candidates[e].role # "admin"
        /\ \A i \in DOMAIN vms :
             vms[i].candidateEmail = e => vms[i].terminatedAt # NULL
        /\ \A i \in DOMAIN lrs :
             lrs[i].candidateEmail = e => lrs[i].status \notin {"queued", "provisioning"}
        /\ candidates[e].quotaDollars * 100
             - ComputeSpentCents(vms, now, e, candidates[e].spentResetAt)
             < CheapestPrice(types))
       => (/\ last' = [op |-> "submit", code |-> 403]
           /\ hs' = hs
           /\ lrs' = lrs /\ vms' = vms /\ sshKeys' = sshKeys
           /\ inst' = inst /\ upKeys' = upKeys)]_vars

\* C36 witness: a submit call has just been answered 403 at the guards, the
\* candidate's terminated VM having cost more than the quota leaves for the
\* cheapest type; nothing is stored or in flight for the request.
C36_Witness ==
  /\ last = [op |-> "submit", code |-> 403]
  /\ lrs = <<>>
  /\ \A h \in Handlers : hs[h].pc = "idle"
  /\ \E i \in DOMAIN vms :
       /\ vms[i].terminatedAt # NULL
       /\ candidates[vms[i].candidateEmail].quotaDollars * 100 - vms[i].accruedCents
            < CheapestPrice(<<"t2", "t1">>)

\* C37: a submit call that passed the guards and registered the SSH key, and
\* that cannot launch at once -- no selected (type, region) had capacity, or
\* the quota covers the matched type and an upstream call of the immediate
\* dispatch failed -- stores the request with status queued and attempts 0,
\* answers 202, writes no VM record and leaves no instance launched.
C37_FallsThroughToQueue ==
  [][\A h \in Handlers, outcome \in {"ok", "fail"} :
       (/\ SubmitDoWith(h, outcome)
        /\ LET e == hs[h].email
               m == hs[h].match
           IN \/ m = <<>>
              \/ /\ \/ hs[h].role # "candidate"
                    \/ e \notin DOMAIN candidates
                    \/ candidates[e].quotaDollars * 100
                         - ComputeSpentCents(vms, now, e, candidates[e].spentResetAt)
                         >= PriceOf[m[1]]
                 /\ \/ outcome = "fail"
                    \/ <<m[1], m[2]>> \notin capacity
                    \/ \A i \in InstanceIds : inst[i] # "absent")
       => (/\ last' = [op |-> "submit", code |-> 202]
           /\ vms' = vms
           /\ inst' = inst
           /\ \E id \in DOMAIN lrs' \ DOMAIN lrs :
                /\ DOMAIN lrs' = DOMAIN lrs \cup {id}
                /\ \A j \in DOMAIN lrs : lrs'[j] = lrs[j]
                /\ lrs'[id].status = "queued"
                /\ lrs'[id].attempts = 0
                /\ lrs'[id].lastAttemptAt = NULL
                /\ lrs'[id].fulfilledInstanceId = NULL
                /\ lrs'[id].candidateEmail = hs[h].email
                /\ lrs'[id].instanceTypes = hs[h].types
                /\ lrs'[id].regions = hs[h].regions
                /\ lrs'[id].createdAt = now)]_vars

\* C37 witness: a submit call has just answered 202 and stored its request
\* as queued with no attempt, while the upstream has no capacity and no VM
\* record or instance exists.
C37_Witness ==
  /\ last = [op |-> "submit", code |-> 202]
  /\ capacity = {}
  /\ vms = <<>>
  /\ \A i \in InstanceIds : inst[i] = "absent"
  /\ \E i \in DOMAIN lrs :
       /\ lrs[i].status = "queued"
       /\ lrs[i].attempts = 0
       /\ lrs[i].createdAt = now

C39_RemovedIsQuiet ==
  [][\A h \in Handlers :
       (hs[h].pc = "remove" /\ hs'[h] # hs[h] /\ last' = [op |-> "remove", code |-> 200])
       => LET e == hs[h].email
          IN /\ e \in DOMAIN candidates'
             /\ candidates'[e].deactivatedAt # NULL
             /\ \A i \in DOMAIN vms' :
                  vms'[i].candidateEmail = e => vms'[i].terminatedAt # NULL
             /\ \A i \in DOMAIN lrs' :
                  lrs'[i].candidateEmail = e
                    => lrs'[i].status \notin {"queued", "provisioning"}]_vars

\* C40: no instance keeps running untracked: a VM record with terminatedAt
\* set never belongs to an instance that is still active upstream, whatever
\* upstream call failed on the way.
C40_NoUntrackedInstance ==
  \A i \in DOMAIN vms : vms[i].terminatedAt # NULL => inst[i] # "active"

====
